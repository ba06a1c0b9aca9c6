------------------------------ MODULE Inotify -------------------------------
(***************************************************************************)
(* inotify_listener (asio/inotify_listener.hpp), which calls back for each *)
(* event, and inotify_service (asio/detail/inotify_service.hpp), which     *)
(* hands out events with every wait and tries to pair the two halves of a  *)
(* move.  Both keep files_, from watch descriptors to paths, beside the    *)
(* kernel's own table; "style" says which of the two this is.              *)
(***************************************************************************)
EXTENDS Integers, Sequences, FiniteSets, SequencesExt, Functions

CONSTANTS Paths,      \* paths that are watched
          MaxWd,      \* bound on the watch descriptors the kernel gives out
          MaxEvents,  \* bound on the events
          MaxOpens,   \* bound on the calls of open()
          BufferSize  \* how many events fit into buffer_

ASSUME InotifyAssumption == MaxWd \in Nat /\ MaxEvents \in Nat /\ MaxOpens \in Nat /\ BufferSize \in Nat \ {0}

VARIABLES
    style,     \* "listener" or "service"
    isOpen,    \* fd_.is_open()
    opened,    \* the number of calls of open()
    watches,   \* the kernel's watches: descriptor -> path
    lastWd,    \* the kernel's last descriptor
    kqueue,    \* the kernel's queue of events
    happened,  \* the number of events so far
    files,     \* files_: descriptor -> path
    buffer,    \* the events between beg_ and end_
    reading,   \* a read or a wait is outstanding
    cookies,   \* cookies_: cookie -> event (the service)
    adding,    \* add() between inotify_add_watch() and emplace()
    reported,  \* what the application has been told, in order
    leftover,  \* descriptors in files_ that belong to a closed fd
    unheard,   \* descriptors whose IN_IGNORED overtook add()
    dropped,   \* events that were dropped: closed with fd_, or not in files_
    stale,     \* events that were in the buffer when their fd was closed
    erased     \* live watches whose entry in files_ a stale IN_IGNORED took

inotifyVars == <<style, isOpen, opened, watches, lastWd, kqueue, happened, files, buffer, reading,
                 cookies, adding, reported, leftover, unheard, dropped, stale, erased>>
kernel == <<watches, lastWd, kqueue, happened>>

Ids(q) == {q[i].id : i \in DOMAIN q}
NoAdd == <<0, "none">>
Without(f, k) == Restrict(f, DOMAIN f \ {k})
Emplace(f, k, v) == [x \in DOMAIN f \cup {k} |-> IF x \in DOMAIN f THEN f[x] ELSE v]

InotifyInit ==
    /\ style \in {"listener", "service"}
    /\ isOpen = FALSE /\ opened = 0 /\ reading = FALSE
    /\ watches = <<>> /\ lastWd = 0 /\ kqueue = <<>> /\ happened = 0
    /\ files = <<>> /\ buffer = <<>> /\ cookies = <<>>
    /\ adding = NoAdd
    /\ reported = <<>> /\ leftover = {} /\ unheard = {} /\ dropped = {}
    /\ stale = {} /\ erased = {}

-----------------------------------------------------------------------------
(* The kernel.                                                             *)

\* "was", the path when it happened, is not in the code.
Queued(wd, kind, cookie, n) ==
    [id |-> n, wd |-> wd, kind |-> kind, cookie |-> cookie, was |-> watches[wd]]

\* A file is touched; or one is moved between two watched directories, or out
\* of or into one, which gives events with a cookie that is the id of the first;
\* or the watched file itself is deleted, which ends the watch.
KernelEvent(w) ==
    /\ w \in DOMAIN watches
    /\ LET n == happened + 1 IN
       \/ /\ n <= MaxEvents /\ happened' = n
          /\ kqueue' = Append(kqueue, Queued(w, "modify", 0, n))
          /\ UNCHANGED watches
       \/ /\ n <= MaxEvents /\ happened' = n
          /\ kqueue' = Append(kqueue, Queued(w, "move", n, n))
          /\ UNCHANGED watches
       \/ \E v \in DOMAIN watches, between \in SUBSET DOMAIN watches :
          /\ Cardinality(between) <= 1
          /\ n + 1 + Cardinality(between) <= MaxEvents
          /\ happened' = n + 1 + Cardinality(between)
          /\ kqueue' = Append(kqueue \o <<Queued(w, "move", n, n)>>
                                \o [i \in 1..Cardinality(between) |->
                                      Queued(CHOOSE u \in between : TRUE, "modify", 0, n + 1)],
                              Queued(v, "move", n, happened'))
          /\ UNCHANGED watches
       \/ /\ n <= MaxEvents /\ happened' = n
          /\ kqueue' = Append(kqueue, Queued(w, "ignored", 0, n))
          /\ watches' = Without(watches, w)
    /\ UNCHANGED <<style, isOpen, opened, lastWd, files, buffer, reading, cookies, adding, reported,
                   leftover, unheard, dropped, stale, erased>>

-----------------------------------------------------------------------------
(* The application.                                                        *)

\* open() and start() of the listener; open() and wait() of the service.
OpenAndRead ==
    /\ ~isOpen /\ opened < MaxOpens
    /\ isOpen' = TRUE /\ opened' = opened + 1
    /\ reading' = TRUE
    /\ UNCHANGED <<style, kernel, files, buffer, cookies, adding, reported, leftover, unheard, dropped,
                   stale, erased>>

OpenAndStart == style = "listener" /\ OpenAndRead
ServiceOpen == style = "service" /\ OpenAndRead

\* close(): the kernel forgets its watches.  The outstanding read ends with an
\* error and is not repeated; files_, cookies_ and what is between beg_ and end_
\* are kept, so that the next waits, or the turns of on_read() when it was a
\* callback that called close(), go on with the events of the closed fd.
CloseFd ==
    /\ isOpen /\ adding = NoAdd
    /\ isOpen' = FALSE /\ reading' = FALSE
    /\ watches' = <<>> /\ lastWd' = 0 /\ kqueue' = <<>>
    /\ leftover' = leftover \cup DOMAIN files
    /\ unheard' = {} /\ erased' = {}
    /\ dropped' = dropped \cup Ids(kqueue)
    /\ stale' = stale \cup Ids(buffer)
    /\ UNCHANGED <<style, opened, happened, files, buffer, cookies, adding, reported>>

CloseInotify == style = "listener" /\ CloseFd
ServiceClose == style = "service" /\ CloseFd

\* Mutant: the descriptor is not entered when another one has the path.
MutAddEmplace ==
    /\ adding # NoAdd
    /\ files' = IF adding[2] \in Range(files) THEN files ELSE Emplace(files, adding[1], adding[2])
    /\ adding' = NoAdd
    /\ erased' = erased \ {adding[1]}
    /\ UNCHANGED <<style, isOpen, opened, kernel, buffer, reading, cookies, reported, leftover, unheard, dropped, stale>>

\* add(): inotify_add_watch() gives the descriptor the path has, or a new one,
AddWatch(p) ==
    /\ isOpen /\ adding = NoAdd
    /\ IF p \in Range(watches)
       THEN /\ adding' = <<CHOOSE w \in DOMAIN watches : watches[w] = p, p>>
            /\ UNCHANGED <<watches, lastWd>>
       ELSE /\ lastWd < MaxWd
            /\ lastWd' = lastWd + 1
            /\ watches' = Emplace(watches, lastWd', p)
            /\ adding' = <<lastWd', p>>
    /\ UNCHANGED <<style, isOpen, opened, kqueue, happened, files, buffer, reading, cookies, reported,
                   leftover, unheard, dropped, stale, erased>>

\* and the descriptor is put into files_ under the lock, unless it is there.
AddEmplace ==
    /\ adding # NoAdd
    /\ files' = Emplace(files, adding[1], adding[2])
    /\ adding' = NoAdd
    /\ erased' = erased \ {adding[1]}
    /\ UNCHANGED <<style, isOpen, opened, kernel, buffer, reading, cookies, reported, leftover, unheard, dropped, stale>>

\* The loop of remove() and exists(): the first descriptor that has the path, in
\* the order of a flat_map or, in the service, of an unordered_map.
FirstOf(p) == {w \in DOMAIN files : /\ files[w] = p
                                   /\ style = "listener" => \A v \in DOMAIN files : files[v] = p => w <= v}

\* remove(), under the lock: the kernel queues IN_IGNORED.  A descriptor the
\* kernel does not know stays in files_.
RemoveEntry(p) ==
    /\ isOpen /\ adding = NoAdd
    /\ \E w \in FirstOf(p) :
        /\ w \in DOMAIN watches
        /\ happened < MaxEvents
        /\ happened' = happened + 1
        /\ kqueue' = Append(kqueue, Queued(w, "ignored", 0, happened'))
        /\ watches' = Without(watches, w)
        /\ files' = Without(files, w)
        /\ leftover' = leftover \ {w}
    /\ UNCHANGED <<style, isOpen, opened, lastWd, buffer, reading, cookies, adding, reported, unheard, dropped,
                   stale, erased>>

RemoveWatch(p) == style = "listener" /\ RemoveEntry(p)
ServiceRemove(p) == style = "service" /\ RemoveEntry(p)

-----------------------------------------------------------------------------
(* Reading.                                                                *)

\* The read completes with as many events as fit.
ReadEvents ==
    LET n == IF Len(kqueue) < BufferSize THEN Len(kqueue) ELSE BufferSize IN
    /\ reading /\ buffer = <<>> /\ n > 0
    /\ buffer' = SubSeq(kqueue, 1, n)
    /\ kqueue' = SubSeq(kqueue, n + 1, Len(kqueue))
    /\ UNCHANGED <<style, isOpen, opened, watches, lastWd, happened, files, reading, cookies, adding,
                   reported, leftover, unheard, dropped, stale, erased>>

\* The callbacks of do_notify().  on_delete() is called for every event: the
\* mask is multiplied by IN_DELETE_SELF.
Callbacks(kind) ==
    {"on_event", "on_delete"} \cup
    (CASE kind = "modify" -> {"on_modify"} [] kind = "move" -> {"on_moved"}
       [] kind = "ignored" -> {"on_disposed"})

Report(e, fs) == [id |-> e.id, kind |-> e.kind, path |-> fs[e.wd], was |-> e.was,
                  old |-> e.wd \in leftover \/ e.id \in stale,
                  calls |-> IF style = "listener" THEN Callbacks(e.kind) ELSE {"event"}]

\* An event of a descriptor that is not (yet, or any more) in files_ is dropped.
\* Overtaken notes when that, or the loss of the entry, happens before add()
\* has come to emplace(); Mistaken, when the entry that is lost is that of a
\* watch which got the descriptor after the event.
Forgotten(e) == IF e.kind = "ignored" THEN {e.wd} ELSE {}
Overtaken(e, fs) ==
    IF e.id \notin stale /\ (e.wd \notin DOMAIN fs \/ e.wd = adding[1]) THEN Forgotten(e) ELSE {}
Mistaken(e) == IF e.id \in stale THEN Forgotten(e) \cap DOMAIN watches ELSE {}

ForgetFile(fs, e) == IF e.kind = "ignored" THEN Without(fs, e.wd) ELSE fs

\* Mutant: an unknown descriptor ends the loop.
MutListenerNotify ==
    LET e == Head(buffer)
        known == e.wd \in DOMAIN files
    IN
    /\ style = "listener" /\ buffer # <<>>
    /\ buffer' = IF known THEN Tail(buffer) ELSE <<>>
    /\ reported' = IF known THEN Append(reported, Report(e, files)) ELSE reported
    /\ files' = IF known THEN ForgetFile(files, e) ELSE files
    /\ dropped' = IF known THEN dropped ELSE dropped \cup {e.id}
    /\ unheard' = unheard \cup Overtaken(e, files)
    /\ erased' = erased \cup Mistaken(e)
    /\ leftover' = leftover \ Forgotten(e)
    /\ UNCHANGED <<style, isOpen, opened, kernel, reading, cookies, adding, stale>>

\* One turn of the loop in on_read().
ListenerNotify ==
    LET e == Head(buffer) IN
    /\ style = "listener" /\ buffer # <<>>
    /\ buffer' = Tail(buffer)
    /\ IF e.wd \in DOMAIN files
       THEN /\ reported' = Append(reported, Report(e, files))
            /\ files' = ForgetFile(files, e)
       ELSE UNCHANGED <<reported, files>>
    /\ leftover' = leftover \cap DOMAIN files'
    /\ dropped' = IF e.wd \in DOMAIN files THEN dropped ELSE dropped \cup {e.id}
    /\ unheard' = unheard \cup Overtaken(e, files)
    /\ erased' = erased \cup Mistaken(e)
    /\ UNCHANGED <<style, isOpen, opened, kernel, reading, cookies, adding, stale>>

\* do_notify() of the service takes one event, and the next one too if it was
\* the first half of a move whose cookie is new and there is a next one.
IsMove(e) == e.kind = "move" /\ e.cookie # 0
Paired(i) == IsMove(buffer[i]) /\ buffer[i].cookie \in DOMAIN cookies \cup {buffer[j].cookie : j \in 1..(i - 1)}
GoesOn(i) == buffer[i].wd \in DOMAIN files /\ IsMove(buffer[i]) /\ ~Paired(i) /\ i < Len(buffer)
LastTaken == CHOOSE i \in DOMAIN buffer : ~GoesOn(i) /\ \A j \in 1..(i - 1) : GoesOn(j)

\* cookies_ when k events have been taken: every first half is stored with the
\* first event of the vector, vec.front().
Stored(k) ==
    LET new == {buffer[i].cookie : i \in 1..(k - 1)} \ DOMAIN cookies
    IN  [c \in DOMAIN cookies \cup new |-> IF c \in new THEN Report(buffer[1], files) ELSE cookies[c]]

\* At the end of the buffer the events that are left in cookies_ are written
\* back into it without their cookies, once for every descriptor of the path,
\* in the order of two unordered_maps: any.
PutBack(ck, fs) ==
    LET left == {x \in (DOMAIN ck) \X (DOMAIN fs) : fs[x[2]] = ck[x[1]].path}
    IN  \E q \in SetToSeqs(left) :
          buffer' = [i \in DOMAIN q |-> [id |-> ck[q[i][1]].id, wd |-> q[i][2], kind |-> ck[q[i][1]].kind,
                                         cookie |-> 0, was |-> ck[q[i][1]].was]]

\* wait() and async_wait(), with their handler.  The second half of a move
\* brings the event stored with its cookie along.
ServiceNotify ==
    LET k == LastTaken
        e == buffer[k]
        known == e.wd \in DOMAIN files
        told == [i \in 1..(IF known THEN k ELSE k - 1) |-> Report(buffer[i], files)]
        ck == IF known /\ Paired(k) THEN Without(Stored(k), e.cookie) ELSE Stored(k)
    IN
    /\ style = "service" /\ buffer # <<>>
    /\ reported' = reported \o (IF known /\ Paired(k) THEN Append(told, Stored(k)[e.cookie]) ELSE told)
    /\ files' = ForgetFile(files, e)
    /\ IF known /\ ck # <<>> /\ k = Len(buffer)
       THEN PutBack(ck, files') /\ cookies' = <<>>
       ELSE buffer' = SubSeq(buffer, k + 1, Len(buffer)) /\ cookies' = ck
    /\ leftover' = leftover \cap DOMAIN files'
    /\ dropped' = IF known THEN dropped ELSE dropped \cup {e.id}
    /\ unheard' = unheard \cup Overtaken(e, files)
    /\ erased' = erased \cup Mistaken(e)
    /\ UNCHANGED <<style, isOpen, opened, kernel, reading, adding, stale>>

InotifyNext ==
    \/ OpenAndStart \/ ServiceOpen \/ CloseInotify \/ ServiceClose
    \/ AddEmplace \/ ReadEvents
    \/ \E p \in Paths : AddWatch(p) \/ RemoveWatch(p) \/ ServiceRemove(p)
    \/ \E w \in 1..MaxWd : KernelEvent(w)
    \/ ListenerNotify \/ ServiceNotify

InotifySpec == InotifyInit /\ [][InotifyNext]_inotifyVars

-----------------------------------------------------------------------------
(* Properties.                                                             *)

Pending(w) ==
    \E q \in {kqueue, buffer} : \E i \in DOMAIN q : q[i].wd = w /\ q[i].kind = "ignored" /\ q[i].id \notin stale

\* A live watch is in files_ or about to be, unless an IN_IGNORED of an earlier
\* fd, left in the buffer by close(), took its entry; and an entry of files_ is
\* a live watch, or its IN_IGNORED is still to come, or it was left by close(),
\* or IN_IGNORED overtook add() (inotify_listener.hpp:69-111, 148-154).
FilesFollowKernel ==
    /\ \A w \in DOMAIN watches : w \in DOMAIN files \/ w = adding[1] \/ w \in erased
    /\ \A w \in DOMAIN files :
          w \in DOMAIN watches \/ Pending(w) \/ w \in leftover \/ w \in unheard

\* An event is reported under the path that was watched when it happened, but
\* for descriptors and events that close() left behind (inotify_listener.hpp:86,
\* 152, inotify_service.hpp:181-184).
RightPath ==
    \A i \in DOMAIN reported :
        \/ reported[i].path = reported[i].was
        \/ \E j \in 1..i : reported[j].id = reported[i].id /\ reported[j].old

\* No event of a watch in files_ is lost and none is new; the listener reports an
\* event once and in the order of the kernel.  The service reports halves of
\* moves again, when it meets the other half or the end of the buffer, but what
\* it reports for the first time is in order (inotify_listener.hpp:135-139,
\* inotify_service.hpp:298-348).
DeliveredInOrder ==
    /\ 1..happened = Ids(reported) \cup Ids(kqueue) \cup Ids(buffer) \cup dropped
    /\ \A i, j \in DOMAIN reported : i < j =>
          \/ reported[i].id < reported[j].id
          \/ style = "service" /\ reported[j].id \in Ids(SubSeq(reported, 1, j - 1))

\* The two together: what the application is told of is what happened, where it
\* happened (inotify_listener.hpp:121-155, inotify_service.hpp:298-348).
EventsReported == RightPath /\ DeliveredInOrder
=============================================================================
