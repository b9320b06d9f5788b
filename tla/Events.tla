-------------------------------- MODULE Events --------------------------------
(***************************************************************************)
(* include/ckit/event.h in its two builds, src/event_epoll.c and           *)
(* src/event_kqueue.c, under a client that does not know which one it has. *)
(*                                                                         *)
(* The kernel's object is the set of its registrations: epoll has one for  *)
(* a descriptor, kqueue one for each of its filters.  A registration has   *)
(* the descriptor, what is asked for and the client's data, which is a     *)
(* pointer to an object that the client keeps for the descriptor and frees *)
(* when it deletes or replaces it.                                         *)
(***************************************************************************)
EXTENDS Integers, Sequences, FiniteSetsExt

CONSTANTS
  Fds, Objects, NoObject,
  Masks,      \* the sets of events that the client asks for, of each descriptor
  MaxEvents   \* the maxevents argument of event_wait

Flags == {"IN", "OUT", "HUP", "RDHUP", "ET", "ONESHOT"}

ASSUME EventsAssumption ==
  /\ NoObject \notin Objects
  /\ Masks \in [Fds -> SUBSET SUBSET (Flags \ {"ET"})]
  /\ \A fd \in Fds : {} \notin Masks[fd]
  /\ MaxEvents \in Nat \ {0}

VARIABLES
  build,  \* "epoll" or "kqueue"
  reg,    \* the registrations in the kernel
  ready,  \* what is pending on each descriptor: data, room, the end of file
  mask,   \* the client's: the events asked for, {} when it has deleted them
  obj,    \* the client's: the object of each descriptor
  fired,  \* the client's: one-shot events it has been told of and not renewed
  batch,  \* the events that event_wait returned and the client has not handled
  strayed \* auxiliary: the client has asked for what the two builds do differently

vars == <<build, reg, ready, mask, obj, fired, batch, strayed>>
client == <<mask, obj, fired, batch, strayed>>

Event == [events : SUBSET Flags, data : Objects]

TypeOK ==
  /\ build \in {"epoll", "kqueue"}
  /\ ready \in [Fds -> SUBSET {"IN", "OUT", "RDHUP"}]
  /\ mask \in [Fds -> SUBSET Flags]
  /\ obj \in [Fds -> Objects \cup {NoObject}]
  /\ fired \in [Fds -> SUBSET {"IN", "OUT", "RDHUP"}]
  /\ batch \subseteq Event
  /\ strayed \in BOOLEAN

\* event_open.
Init ==
  /\ build \in {"epoll", "kqueue"}
  /\ reg = {}
  /\ ready = [fd \in Fds |-> {}]
  /\ mask = [fd \in Fds |-> {}]
  /\ obj = [fd \in Fds |-> NoObject]
  /\ fired = [fd \in Fds |-> {}]
  /\ batch = {}
  /\ strayed = FALSE

-------------------------------------------------------------------------------
(* The kernel: registrations after a call, and whether it succeeded.       *)

epoll_ctl(cmd, fd, eev) ==
  LET old == {r \in reg : r.fd = fd}
      new == [fd |-> fd, what |-> eev.events, data |-> eev.data]
      ok  == (cmd = "EPOLL_CTL_ADD") <=> (old = {})
  IN  [ok  |-> ok,
       reg |-> IF ~ok THEN reg
               ELSE (reg \ old) \cup (IF cmd = "EPOLL_CTL_DEL" THEN {} ELSE {new})]

\* One change of a registration, after changes with the result res.
Change(res, kev) ==
  LET old == {r \in res.reg : r.fd = kev.ident /\ kev.filter \in r.what}
      new == [fd |-> kev.ident, data |-> kev.udata,
              what |-> {kev.filter} \cup (kev.flags \cap {"EV_ONESHOT"})]
  IN  IF ~res.ok \/ ("EV_DELETE" \in kev.flags /\ old = {})
      THEN [ok |-> FALSE, reg |-> res.reg]
      ELSE [ok |-> TRUE, reg |-> (res.reg \ old) \cup
                                 (IF "EV_ADD" \in kev.flags THEN {new} ELSE {})]

\* The changes, of which there are at most two, are applied in turn, up to the
\* first that fails.
kevent(changes) ==
  LET none == [ok |-> TRUE, reg |-> reg]
      one  == Change(none, changes[1])
  IN  CASE Len(changes) = 0 -> none
        [] Len(changes) = 1 -> one
        [] Len(changes) = 2 -> Change(one, changes[2])

\* What a registration has to report.
Pending(r) ==
  LET names == [IN |-> {"EPOLLIN", "EVFILT_READ"}, OUT |-> {"EPOLLOUT", "EVFILT_WRITE"},
                RDHUP |-> {"EPOLLRDHUP"}]
  IN  {f \in ready[r.fd] : names[f] \cap r.what # {}}

\* A one-shot registration that has reported is disabled, or deleted.
Reported(rs) ==
  IF build = "epoll"
  THEN {IF "EPOLLONESHOT" \in r.what THEN [r EXCEPT !.what = {"EPOLLONESHOT"}] ELSE r : r \in rs}
  ELSE {r \in rs : "EV_ONESHOT" \notin r.what}

-------------------------------------------------------------------------------
(* event_epoll.c.                                                          *)

\* The slip of taking EVENT_CTL_DEL in the branch of EVENT_CTL_MOD.
epoll_cmd_NoDel(ctl) == IF ctl = "ADD" THEN "EPOLL_CTL_ADD" ELSE "EPOLL_CTL_MOD"

epoll_cmd(ctl) ==
  CASE ctl = "ADD" -> "EPOLL_CTL_ADD"
    [] ctl = "MOD" -> "EPOLL_CTL_MOD"
    [] ctl = "DEL" -> "EPOLL_CTL_DEL"

EpollFlag == [IN |-> "EPOLLIN", OUT |-> "EPOLLOUT", HUP |-> "EPOLLHUP",
              RDHUP |-> "EPOLLRDHUP", ET |-> "EPOLLET", ONESHOT |-> "EPOLLONESHOT"]

event_to_epoll_event(ev) ==
  [events |-> {EpollFlag[f] : f \in ev.events}, data |-> ev.data]

epoll_event_to_event(eev) ==
  [events |-> {f \in Flags : EpollFlag[f] \in eev.events}, data |-> eev.data]

epoll_event_ctl(ctl, fd, ev) == epoll_ctl(epoll_cmd(ctl), fd, event_to_epoll_event(ev))

\* A wait that a signal interrupts returns nothing and changes nothing.
epoll_event_wait(rs) ==
  {epoll_event_to_event([events |-> {EpollFlag[f] : f \in Pending(r)}, data |-> r.data]) : r \in rs}

-------------------------------------------------------------------------------
(* event_kqueue.c.                                                         *)

kevent_flags(ctl, ev) ==
  (IF ctl = "DEL" THEN {"EV_DELETE"} ELSE {"EV_ADD"})
    \cup (IF "ONESHOT" \in ev.events THEN {"EV_ONESHOT"} ELSE {})

\* The slip of taking the end of file for an event of its own kind only.
kevent_to_event_Raw(kev) == [events |-> {kev.filter}, data |-> kev.udata]

kevent_to_event(kev) ==
  [events |-> (IF kev.filter = "EVFILT_READ" THEN {"IN"} ELSE {})
         \cup (IF kev.filter = "EVFILT_WRITE" THEN {"OUT"} ELSE {})
         \cup (IF "EV_EOF" \in kev.flags THEN {"RDHUP"} ELSE {}),
   data |-> kev.udata]

\* The slip of one filter or the other.
Changes_OneFilter(ctl, fd, ev) ==
  LET Set(filter) == [ident |-> fd, filter |-> filter, flags |-> kevent_flags(ctl, ev), udata |-> ev.data]
  IN  IF "IN" \in ev.events THEN <<Set("EVFILT_READ")>>
      ELSE IF "OUT" \in ev.events THEN <<Set("EVFILT_WRITE")>> ELSE <<>>

\* The slip of deleting both filters, asked for or not.
Changes_Both(ctl, fd, ev) ==
  LET Set(filter) == [ident |-> fd, filter |-> filter, flags |-> kevent_flags(ctl, ev), udata |-> ev.data]
  IN  (IF "IN" \in ev.events \/ ctl = "DEL" THEN <<Set("EVFILT_READ")>> ELSE <<>>)
      \o (IF "OUT" \in ev.events \/ ctl = "DEL" THEN <<Set("EVFILT_WRITE")>> ELSE <<>>)

\* The array kev of event_ctl.
Changes(ctl, fd, ev) ==
  LET Set(filter) == [ident |-> fd, filter |-> filter, flags |-> kevent_flags(ctl, ev), udata |-> ev.data]
  IN  (IF "IN" \in ev.events THEN <<Set("EVFILT_READ")>> ELSE <<>>)
      \o (IF "OUT" \in ev.events THEN <<Set("EVFILT_WRITE")>> ELSE <<>>)

kqueue_event_ctl(ctl, fd, ev) == kevent(Changes(ctl, fd, ev))

\* The slip of leaving the loop after the first event.
kqueue_event_wait_First(rs) ==
  LET r == CHOOSE r \in rs : TRUE
  IN  {kevent_to_event([filter |-> CHOOSE w \in r.what : w # "EV_ONESHOT", flags |-> {}, udata |-> r.data])}

kqueue_event_wait(rs) ==
  {kevent_to_event([filter |-> CHOOSE w \in r.what : w # "EV_ONESHOT",
                    flags  |-> IF "RDHUP" \in ready[r.fd] /\ "EVFILT_READ" \in r.what THEN {"EV_EOF"} ELSE {},
                    udata  |-> r.data]) : r \in rs}

-------------------------------------------------------------------------------
(* The client.                                                             *)

event_ctl(ctl, fd, ev) ==
  IF build = "epoll" THEN epoll_event_ctl(ctl, fd, ev) ELSE kqueue_event_ctl(ctl, fd, ev)

Filters(events) == events \cap {"IN", "OUT"}
Unused == Objects \ {obj[fd] : fd \in Fds}
InBatch(fd) == \E ev \in batch : ev.data = obj[fd]

\* A call that fails leaves the client's books as they are.
Call(ctl, fd, ev, m, o) ==
  LET res == event_ctl(ctl, fd, ev)
  IN  /\ reg' = res.reg
      /\ mask' = IF res.ok THEN [mask EXCEPT ![fd] = m] ELSE mask
      /\ obj' = IF res.ok THEN [obj EXCEPT ![fd] = o] ELSE obj
      /\ fired' = IF res.ok THEN [fired EXCEPT ![fd] = {}] ELSE fired
      /\ UNCHANGED <<build, ready, batch>>

Add(fd) ==
  /\ mask[fd] = {}
  /\ \E m \in Masks[fd], o \in Unused : Call("ADD", fd, [events |-> m, data |-> o], m, o)
  /\ UNCHANGED strayed

\* A descriptor is one-shot or level-triggered for good, and is not touched
\* while there are events of it to handle.  MOD replaces what was asked for with
\* epoll; with kqueue it adds to it, and a client that asks for less has strayed.
Mod(fd) ==
  /\ mask[fd] # {} /\ ~InBatch(fd)
  /\ \E m \in Masks[fd], o \in Unused \cup {obj[fd]} :
       /\ "ONESHOT" \in m <=> "ONESHOT" \in mask[fd]
       /\ Call("MOD", fd, [events |-> m, data |-> o], m, o)
       /\ strayed' = (strayed \/ ~(Filters(mask[fd]) \subseteq Filters(m)))

\* The client deletes all that it asked for, or what has not fired.  With kqueue
\* a filter that has fired is gone, and a client that names it has strayed.
Del(fd) ==
  /\ mask[fd] # {} /\ ~InBatch(fd)
  /\ \E events \in {mask[fd], mask[fd] \ fired[fd]} :
       /\ Call("DEL", fd, [events |-> events, data |-> obj[fd]], {}, NoObject)
       /\ strayed' = (strayed \/ Filters(events) \cap fired[fd] # {})

\* event_wait returns as many of the registrations that have events as it can.
Wait ==
  LET some == {r \in reg : Pending(r) # {}}
  IN  /\ batch = {} /\ some # {}
      /\ \E rs \in kSubset(Min({MaxEvents, Cardinality(some)}), some) :
           /\ batch' = IF build = "epoll" THEN epoll_event_wait(rs) ELSE kqueue_event_wait(rs)
           /\ reg' = (reg \ rs) \cup Reported(rs)
      /\ UNCHANGED <<build, ready, mask, obj, fired, strayed>>

\* The client finds the descriptor through its object, reads or writes all it
\* can, and renews a one-shot registration when it has handled its events.
\* At the end of file there is always something to read: the end of file.
Handle(fd, ev) ==
  /\ ev \in batch /\ ev.data = obj[fd]
  /\ batch' = batch \ {ev}
  /\ ready' = [ready EXCEPT ![fd] = @ \ (Filters(ev.events) \ (IF "RDHUP" \in @ THEN {"IN"} ELSE {}))]
  /\ fired' = IF "ONESHOT" \in mask[fd] THEN [fired EXCEPT ![fd] = @ \cup ev.events] ELSE fired
  /\ UNCHANGED <<build, reg, mask, obj, strayed>>

\* The pointer in an event is to no object that the client keeps: it has nothing
\* to handle.  (A client in C that follows the pointer reads freed memory.)
Discard(ev) ==
  /\ ev \in batch /\ \A fd \in Fds : ev.data # obj[fd]
  /\ batch' = batch \ {ev}
  /\ UNCHANGED <<build, reg, ready, mask, obj, fired, strayed>>

Renew(fd) ==
  /\ fired[fd] # {} /\ ~InBatch(fd)
  /\ Call("MOD", fd, [events |-> mask[fd], data |-> obj[fd]], mask[fd], obj[fd])
  /\ UNCHANGED strayed

\* Data, room or the end of file comes, from outside.
Arrive(fd) ==
  /\ \E f \in {"IN", "OUT", "RDHUP"} \ ready[fd] :
       ready' = [ready EXCEPT ![fd] = @ \cup (IF f = "RDHUP" THEN {"IN", "RDHUP"} ELSE {f})]
  /\ UNCHANGED <<build, reg, client>>

Next ==
  \/ Wait
  \/ \E fd \in Fds : Add(fd) \/ Mod(fd) \/ Del(fd) \/ Renew(fd) \/ Arrive(fd)
  \/ \E fd \in Fds, ev \in batch : Handle(fd, ev)
  \/ \E ev \in batch : Discard(ev)

Spec == Init /\ [][Next]_vars

\* The client's loop goes on: it waits, handles what it got and renews.  The
\* kernel serves its registrations in turn: none is passed over for ever.
Told(fd, f) == \E ev \in batch : ev.data = obj[fd] /\ f \in ev.events

Fairness ==
  /\ WF_vars(\E ev \in batch : Discard(ev))
  /\ \A fd \in Fds :
       /\ \A f \in {"IN", "OUT"} : SF_vars(Wait /\ Told(fd, f)')
       /\ WF_vars(\E ev \in batch : Handle(fd, ev))
       /\ SF_vars(Renew(fd))

FairSpec == Spec /\ Fairness

-------------------------------------------------------------------------------
Armed(fd) == mask[fd] # {} /\ fired[fd] = {} /\ ~InBatch(fd)
Asks(r) == {f \in Flags : EpollFlag[f] \in r.what}
           \cup (IF "EVFILT_READ" \in r.what THEN {"IN"} ELSE {})
           \cup (IF "EVFILT_WRITE" \in r.what THEN {"OUT"} ELSE {})

\* On both builds the kernel holds all that the client has asked for with
\* event_ctl and has not been told of yet: for each of the events IN and OUT of
\* an armed descriptor there is a registration with the client's own pointer.
\* A client that has strayed may rely on it too.
InterestHeld ==
  \A fd \in Fds : Armed(fd) =>
    \A f \in Filters(mask[fd]) :
      \E r \in reg : r.fd = fd /\ r.data = obj[fd] /\ f \in Asks(r)

\* And nothing else: no registration outlives the object that its data points
\* to, and none asks for an event that the client no longer wants.  With epoll
\* this is so for every client; with kqueue for one that has not strayed, that is,
\* has never narrowed a mask with MOD nor named a filter that has fired in a DEL.
NoStaleInterest ==
  (build = "epoll" \/ ~strayed) =>
    \A r \in reg : /\ mask[r.fd] # {} /\ r.data = obj[r.fd]
                    /\ Filters(Asks(r)) \subseteq mask[r.fd]

\* A deletion of these events succeeds and leaves no registration.
Revokes(fd, events) ==
  LET res == event_ctl("DEL", fd, [events |-> events, data |-> obj[fd]])
  IN  res.ok /\ \A r \in res.reg : r.fd # fd

\* The client can take back all that it asked for with one event_ctl.  With epoll
\* it can at any time, with events to handle or one-shot events fired, and by
\* naming its whole mask.  With kqueue a client that has not strayed can when it
\* has no event of the descriptor to handle, and must leave out of the mask what
\* has fired: kevent() fails on a filter that is gone.
Revocable ==
  \A fd \in Fds : mask[fd] # {} =>
    /\ build = "epoll" => Revokes(fd, mask[fd])
    /\ build = "kqueue" /\ ~strayed /\ ~InBatch(fd) => Revokes(fd, mask[fd] \ fired[fd])

\* An event that is wanted and pending reaches the client through event_wait,
\* unless it is no longer wanted: whatever else it watches, with one-shot
\* registrations that it renews as with others.
Served ==
  \A fd \in Fds, f \in {"IN", "OUT"} :
    (f \in ready[fd] \cap mask[fd]) ~> (Told(fd, f) \/ f \notin mask[fd])
===============================================================================
