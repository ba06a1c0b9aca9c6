---------------------------- MODULE MCContainers ----------------------------
(***************************************************************************)
(* The LRU containers and the sequenced ones, which share nothing: "part"  *)
(* says what a behaviour is about, and the rest stays as it was made.  One *)
(* LRU container has all the keys; two of them, which are copied to and    *)
(* fro, have Few of them in use, one less when they are timed.             *)
(***************************************************************************)
EXTENDS LruCache, SequencedMap, TLC

CONSTANT Few
VARIABLE part

KeysInUse == UNION {DOMAIN cache[o].hash : o \in Objs}

OneLru == /\ part = "one" /\ LruNext({CHOOSE o \in Objs : TRUE})
          /\ UNCHANGED <<part, sequencedVars>>
TwoLrus == /\ part = "two" /\ LruNext(Objs)
           /\ Cardinality(KeysInUse') <= (IF kind = "lru" THEN Few ELSE Few - 1)
           /\ UNCHANGED <<part, sequencedVars>>
Sequenced == /\ part = "sequenced" /\ SequencedNext
             /\ UNCHANGED <<part, lruVars>>

Init == /\ part \in {"one", "two", "sequenced"}
        /\ LruInit /\ SequencedInit
        /\ part # "sequenced" => seqKind = "map"
        /\ part = "sequenced" => kind = "lru"
        /\ part = "two" => kind # "timed_map"
Next == OneLru \/ TwoLrus \/ Sequenced
Spec == Init /\ [][Next]_<<part, lruVars, sequencedVars>>

\* Keys and values are interchangeable.
Symm == Permutations(Keys) \cup Permutations(Vals)
=============================================================================
