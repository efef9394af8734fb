---------------------------- MODULE KeySequences ----------------------------
(* The std::list<T> KeySequence of TimeoutCache.h: keys in the order in      *)
(* which they were added, with erasure at an iterator.                       *)
EXTENDS Naturals, SequencesExt

\* The keys a list holds.
KeysOf(s) == {s[i] : i \in 1..Len(s)}

\* No key is in the list twice.
NoRepeats(s) == \A i, j \in 1..Len(s) : s[i] = s[j] => i = j

\* Where the iterator a cache entry keeps for key k points.
IteratorOf(s, k) == CHOOSE i \in 1..Len(s) : s[i] = k

\* KeySequence.erase(entry.KeySequenceIterator) for the entry of key k.
Without(s, k) == RemoveAt(s, IteratorOf(s, k))
=============================================================================
