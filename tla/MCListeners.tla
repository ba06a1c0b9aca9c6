---------------------------- MODULE MCListeners ----------------------------
(***************************************************************************)
(* The two listeners of kernel events, each by itself: "listener" is the   *)
(* one that is used.                                                       *)
(***************************************************************************)
EXTENDS Inotify, Netlink

VARIABLE listener

\* The tags of two derived classes: tags that share a group with one that was
\* not chosen, and tags that do not.
Tags == {{<<"link">>, <<"neighbor", "v4">>}, {<<"stats">>, <<"ifaddr", "v4">>, <<"ifaddr", "v6">>}}

\* Nothing tells one path from another.
Symmetry == Permutations(Paths)

\* The listener that is not used stays in one initial state.
Init == /\ listener \in {"inotify", "netlink"} /\ InotifyInit /\ NetlinkInit
        /\ listener = "netlink" => style = "listener"
        /\ listener = "inotify" => category = CHOOSE c \in NlCategories : TRUE

Next == /\ UNCHANGED listener
        /\ \/ listener = "inotify" /\ InotifyNext /\ UNCHANGED netlinkVars
           \/ listener = "netlink" /\ NetlinkNext /\ UNCHANGED inotifyVars

Spec == Init /\ [][Next]_<<listener, inotifyVars, netlinkVars>>
=============================================================================
