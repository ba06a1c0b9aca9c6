--------------------------- MODULE MCHttpProgress ---------------------------
(***************************************************************************)
(* Two settings of HttpClient in which the requests must get on, on one    *)
(* thread with servers that answer or refuse: "retry", one place for two   *)
(* requests to a host with two addresses, with retries and timeouts; and   *)
(* "kept", where connections are kept and handed over and answers          *)
(* redirect.                                                               *)
(***************************************************************************)
EXTENDS Naturals, Sequences

CONSTANTS Reqs, Socks, FewSocks, None, e1, e2

VARIABLES setting, pc, host, sock, answer, so, count, keep, owed, leaked

Eps == {e1, e2}

Retry == INSTANCE HttpClient WITH
  Socks <- FewSocks, Hosts <- {<<e1>>, <<e2, e1>>}, MaxCount <- 1, MaxRetry <- 1,
  OneThread <- TRUE, Events <- {"bad_answer", "connect_error", "io_error", "timeout"}

Kept == INSTANCE HttpClient WITH
  Hosts <- {<<e1>>}, MaxCount <- 2, MaxRetry <- 0,
  OneThread <- TRUE, Events <- {"bad_answer", "connect_error", "keep_alive", "redirect"}

httpVars == <<pc, host, sock, answer, so, count, keep, owed, leaked>>

Init == \/ setting = "retry" /\ Retry!Init
        \/ setting = "kept" /\ Kept!Init

Next == /\ UNCHANGED setting
        /\ \/ setting = "retry" /\ Retry!Next
           \/ setting = "kept" /\ Kept!Next

\* The fairness of HttpClient, and servers that complete what they are asked
\* (Fairness and ServersAnswer there), each in its setting.
Retrying(A) == setting = "retry" /\ A
Keeping(A)  == setting = "kept" /\ A
Fairness ==
  /\ \A r \in Reqs : /\ WF_httpVars(Retrying(Retry!Caller(r)))
                     /\ WF_httpVars(Keeping(Kept!Caller(r)))
  /\ \A s \in FewSocks :
       /\ WF_httpVars(Retrying(Retry!Handle(s))) /\ WF_httpVars(Retrying(Retry!TimerDue(s)))
       /\ WF_httpVars(Retrying(\E result \in {"ok", "error"} : Retry!Complete(s, result)))
  /\ \A s \in Socks :
       /\ WF_httpVars(Keeping(Kept!Handle(s))) /\ WF_httpVars(Keeping(Kept!TimerDue(s)))
       /\ WF_httpVars(Keeping(\E result \in {"ok", "error"} : Kept!Complete(s, result)))
  /\ WF_httpVars(Retrying(Retry!Uncount)) /\ WF_httpVars(Keeping(Kept!Uncount))

Spec == Init /\ [][Next]_<<setting, httpVars>> /\ Fairness

\* Every request whose async_start() has returned is called back (client_socket.hpp).
Completes == Retry!Completes

\* Every request gets through lock_wait() (http_client.hpp:165-217).
\* Among kept connections that is not so: an idle one keeps its place until its
\* server closes it, and a request for another host sleeps as long (README 5.9).
Admitted ==
  \A r \in Reqs : setting = "retry" /\ pc[r] = "lock" ~> pc[r] \notin {"lock", "asleep"}
=============================================================================
