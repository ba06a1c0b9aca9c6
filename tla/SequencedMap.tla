----------------------------- MODULE SequencedMap ---------------------------
(***************************************************************************)
(* sequenced_map and sequenced_multimap (container/sequenced_map.hpp) over *)
(* sequenced_map_base: entries in a deque, searched from the front, in the *)
(* order in which their keys came.  The headers of an e-mail are such a    *)
(* multimap (email/headers.hpp).  An entry is its key and the number of    *)
(* the call that made it; the number is also its value.                    *)
(***************************************************************************)
EXTENDS Integers, Sequences, SequencesExt

CONSTANTS SeqKeys,    \* keys
          MaxEntries  \* bound on the number of entries ever made

ASSUME SequencedAssumption == MaxEntries \in Nat

VARIABLES seqKind,  \* "map" or "multimap"
          entries,  \* data_
          made      \* the number of entries made so far

sequencedVars == <<seqKind, entries, made>>

SequencedInit == seqKind \in {"map", "multimap"} /\ entries = <<>> /\ made = 0

-----------------------------------------------------------------------------
End(d) == Len(d) + 1

\* find(), which is end() if there is none.
FindEntry(d, k) ==
    IF \E i \in DOMAIN d : d[i].key = k
    THEN CHOOSE i \in DOMAIN d : d[i].key = k /\ \A j \in 1..(i - 1) : d[j].key # k
    ELSE End(d)

\* advance_to_next_key()
AdvanceToNextKey(d, i) ==
    CHOOSE j \in (i + 1)..End(d) :
        /\ \A n \in i..(j - 1) : d[n].key = d[i].key
        /\ j = End(d) \/ d[j].key # d[i].key

\* Mutant: a new entry of the multimap goes before the others of its key.
MutInsertMulti(d, e) == InsertAt(d, FindEntry(d, e.key), e)

\* insert() and emplace() of the map leave an entry that is there alone; those of
\* the multimap put the new one behind the last of its key.
InsertMap(d, e) == IF FindEntry(d, e.key) = End(d) THEN Append(d, e) ELSE d
InsertMulti(d, e) ==
    LET i == FindEntry(d, e.key) IN
    IF i = End(d) THEN Append(d, e) ELSE InsertAt(d, AdvanceToNextKey(d, i), e)
InsertOne(d, e) == IF seqKind = "map" THEN InsertMap(d, e) ELSE InsertMulti(d, e)

\* operator[] of the map, and that of the headers: the first entry of the key is
\* the one referred to, and is made if need be.
Subscript(d, e) == IF FindEntry(d, e.key) = End(d) THEN InsertOne(d, e) ELSE d

\* insert(beg, end): one by one; the ranges of the model have two entries.
InsertRange(d, es) == InsertOne(InsertOne(d, es[1]), es[2])

-----------------------------------------------------------------------------
Entry(k, n) == [key |-> k, born |-> n]
Become(d, n) == made + n <= MaxEntries /\ made' = made + n /\ entries' = d /\ UNCHANGED seqKind

InsertKey(k) == Become(InsertOne(entries, Entry(k, made + 1)), 1)
SubscriptKey(k) == Become(Subscript(entries, Entry(k, made + 1)), 1)

\* assign(beg, end) clears first; the range has two entries (an empty range
\* increments an iterator that points nowhere).
TwoEntries(j, k) == <<Entry(j, made + 1), Entry(k, made + 2)>>
InsertTwo(j, k) == Become(InsertRange(entries, TwoEntries(j, k)), 2)
AssignTwo(j, k) == Become(InsertRange(<<>>, TwoEntries(j, k)), 2)

\* erase(it), erase(beg, end) and clear(): positions i to j - 1.
EraseEntries(i, j) ==
    /\ i \in DOMAIN entries /\ j \in (i + 1)..End(entries)
    /\ entries' = SubSeq(entries, 1, i - 1) \o SubSeq(entries, j, Len(entries))
    /\ UNCHANGED <<seqKind, made>>

SequencedNext ==
    \/ \E k \in SeqKeys : InsertKey(k) \/ SubscriptKey(k)
    \/ \E j, k \in SeqKeys : InsertTwo(j, k) \/ AssignTwo(j, k)
    \/ \E i, j \in 1..(MaxEntries + 1) : EraseEntries(i, j)

SequencedSpec == SequencedInit /\ [][SequencedNext]_sequencedVars

-----------------------------------------------------------------------------
(* Properties.                                                             *)

\* A map has one entry for a key, and its entries are in the order in which they
\* were made.  In a multimap the entries of a key stand together in the order in
\* which they were made, so that find() gives the oldest and walking on from it
\* gives all of them; that holds after erasing some of them and inserting again
\* (sequenced_map.hpp:57-103, 157-208; the comment at :117 promises it).
KeysTogether ==
    \A i, j \in DOMAIN entries : i < j =>
        /\ seqKind = "map" => /\ entries[i].key # entries[j].key
                              /\ entries[i].born < entries[j].born
        /\ entries[i].key = entries[j].key =>
              /\ entries[i].born < entries[j].born
              /\ \A n \in i..j : entries[n].key = entries[i].key
=============================================================================
