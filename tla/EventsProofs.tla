----------------------------- MODULE EventsProofs -----------------------------
(***************************************************************************)
(* Proofs about Events, for any descriptors, objects and masks, on both    *)
(* builds, and for clients that stray as for those that do not.            *)
(***************************************************************************)
EXTENDS Events, TLAPS

(* The inductive invariant has two parts.  With epoll, and with kqueue     *)
(* while the client has not strayed, what the kernel holds is a function   *)
(* of what the client has in its books.  With kqueue, whatever the client  *)
(* does, the kernel holds at least what it has asked for and was not told  *)
(* of.                                                                     *)

Reports == {"IN", "OUT", "RDHUP"}

\* The one-shot events of a descriptor that have fired: the client has been
\* told of them, or finds them in what event_wait returned.
Gone(fd) ==
  IF "ONESHOT" \in mask[fd]
  THEN fired[fd] \cup UNION {ev.events : ev \in {e \in batch : e.data = obj[fd]}}
  ELSE {}

FilterOf(f) == IF f = "IN" THEN "EVFILT_READ" ELSE "EVFILT_WRITE"

EpollReg(fd, events, o) == [fd |-> fd, what |-> {EpollFlag[f] : f \in events}, data |-> o]
Disabled(fd, o) == [fd |-> fd, what |-> {"EPOLLONESHOT"}, data |-> o]

KqueueReg(fd, f, events, o) ==
  [fd |-> fd, data |-> o,
   what |-> {FilterOf(f)} \cup (IF "ONESHOT" \in events THEN {"EV_ONESHOT"} ELSE {})]

\* What the kernel holds for a descriptor.
Own(fd) ==
  IF mask[fd] = {} THEN {}
  ELSE IF build = "epoll"
  THEN {IF Gone(fd) = {} THEN EpollReg(fd, mask[fd], obj[fd]) ELSE Disabled(fd, obj[fd])}
  ELSE {KqueueReg(fd, f, mask[fd], obj[fd]) : f \in Filters(mask[fd]) \ Gone(fd)}

RegInv == reg = UNION {Own(fd) : fd \in Fds}

BookInv ==
  /\ \A fd \in Fds : mask[fd] \in Masks[fd] \cup {{}}
  /\ \A fd \in Fds : IF mask[fd] = {} THEN obj[fd] = NoObject /\ fired[fd] = {}
                                      ELSE obj[fd] \in Objects
  /\ \A fd1, fd2 \in Fds : obj[fd1] = obj[fd2] /\ obj[fd1] # NoObject => fd1 = fd2
  /\ \A fd \in Fds : fired[fd] # {} => "ONESHOT" \in mask[fd]
  /\ \A ev \in batch : ev.events # {} /\ ev.events \subseteq Reports

\* The pointer of every event that is still to be handled is to the object of a
\* descriptor that the client watches.
BatchOwned ==
  \A ev \in batch : \E fd \in Fds : mask[fd] # {} /\ obj[fd] = ev.data

Tidy == build = "epoll" \/ ~strayed
TidyInv == TypeOK /\ RegInv /\ BookInv /\ BatchOwned

RegType ==
  \A r \in reg : \E fd \in Fds, f \in {"IN", "OUT"}, m \in SUBSET Flags, o \in Objects :
    r = KqueueReg(fd, f, m, o)

Held ==
  \A fd \in Fds : mask[fd] # {} /\ Gone(fd) = {} =>
    \A f \in Filters(mask[fd]) : KqueueReg(fd, f, mask[fd], obj[fd]) \in reg

LooseInv == TypeOK /\ BookInv /\ RegType /\ Held

EventsInv ==
  /\ build \in {"epoll", "kqueue"}
  /\ Tidy => TidyInv
  /\ build = "kqueue" => LooseInv

--------------------------------------------------------------------------------
(* The names of flags and filters.                                         *)

LEMMA Names ==
  /\ \A f, g \in Flags : EpollFlag[f] = EpollFlag[g] => f = g
  /\ \A f \in Flags : EpollFlag[f] \notin {"EVFILT_READ", "EVFILT_WRITE", "EV_ONESHOT"}
  /\ \A f \in Flags : EpollFlag[f] = "EPOLLONESHOT" <=> f = "ONESHOT"
  /\ \A f \in Flags : EpollFlag[f] = "EPOLLIN" <=> f = "IN"
  /\ \A f \in Flags : EpollFlag[f] = "EPOLLOUT" <=> f = "OUT"
  /\ \A f \in Flags : EpollFlag[f] = "EPOLLRDHUP" <=> f = "RDHUP"
BY DEF Flags, EpollFlag

LEMMA MaskFacts ==
  ASSUME NEW fd \in Fds, NEW m \in Masks[fd]
  PROVE  m \in SUBSET Flags /\ m # {}
BY EventsAssumption

LEMMA FdOfOwn ==
  ASSUME NEW fd \in Fds, NEW r \in Own(fd)
  PROVE  r.fd = fd
BY DEF Own, EpollReg, Disabled, KqueueReg

LEMMA OwnIsAll ==
  ASSUME RegInv, NEW fd \in Fds
  PROVE  {r \in reg : r.fd = fd} = Own(fd)
<1>1. ASSUME NEW r \in reg, r.fd = fd PROVE r \in Own(fd)
  <2>1. PICK x \in Fds : r \in Own(x)
    BY DEF RegInv
  <2>2. QED
    BY <1>1, <2>1, FdOfOwn
<1>2. QED
  BY <1>1, FdOfOwn DEF RegInv

--------------------------------------------------------------------------------
(* What event_ctl does to the registrations, on either build.              *)

\* The registrations of a descriptor right after it was added or modified.
Fresh(fd, events, o) ==
  IF build = "epoll" THEN {EpollReg(fd, events, o)}
  ELSE {KqueueReg(fd, f, events, o) : f \in Filters(events)}

Kev(ctl, fd, f, ev) ==
  [ident |-> fd, filter |-> FilterOf(f), flags |-> kevent_flags(ctl, ev), udata |-> ev.data]

LEMMA KeventOf ==
  ASSUME NEW ctl, NEW fd, NEW ev, NEW one, NEW two, NEW none,
         none = [ok |-> TRUE, reg |-> reg],
         one = Change(none, Kev(ctl, fd, IF "IN" \in ev.events THEN "IN" ELSE "OUT", ev)),
         two = Change(one, Kev(ctl, fd, "OUT", ev))
  PROVE  kqueue_event_ctl(ctl, fd, ev) =
           IF Filters(ev.events) = {} THEN none
           ELSE IF Filters(ev.events) = {"IN", "OUT"} THEN two ELSE one
<1> DEFINE c == Changes(ctl, fd, ev)
           i == Kev(ctl, fd, "IN", ev)
           o == Kev(ctl, fd, "OUT", ev)
<1>1. CASE "IN" \in ev.events /\ "OUT" \in ev.events
  <2>1. ASSUME NEW a, NEW b
        PROVE  /\ Len(<<a>> \o <<b>>) = 2
               /\ (<<a>> \o <<b>>)[1] = a /\ (<<a>> \o <<b>>)[2] = b
    <3>1. <<a>> \in Seq({a, b}) /\ <<b>> \in Seq({a, b})
      OBVIOUS
    <3>2. QED
      BY <3>1
  <2>2. kevent(c) = Change(Change([ok |-> TRUE, reg |-> reg], i), o)
    <3>1. c = <<i>> \o <<o>>
      BY <1>1 DEF Changes, Kev, FilterOf
    <3>2. Len(c) = 2 /\ c[1] = i /\ c[2] = o
      BY <2>1, <3>1
    <3>3. QED
      BY <3>2 DEF kevent
  <2>3. QED
    BY <1>1, <2>2 DEF kqueue_event_ctl, Filters
<1>2. CASE "IN" \in ev.events /\ "OUT" \notin ev.events
  <2>1. c = <<i>>
    BY <1>2 DEF Changes, Kev, FilterOf
  <2>2. kevent(c) = Change([ok |-> TRUE, reg |-> reg], i)
    BY <2>1 DEF kevent
  <2>3. QED
    BY <1>2, <2>2 DEF kqueue_event_ctl, Filters
<1>3. CASE "IN" \notin ev.events /\ "OUT" \in ev.events
  <2>1. c = <<o>>
    BY <1>3 DEF Changes, Kev, FilterOf
  <2>2. kevent(c) = Change([ok |-> TRUE, reg |-> reg], o)
    BY <2>1 DEF kevent
  <2>3. QED
    BY <1>3, <2>2 DEF kqueue_event_ctl, Filters
<1>4. CASE "IN" \notin ev.events /\ "OUT" \notin ev.events
  <2>1. c = <<>>
    BY <1>4 DEF Changes
  <2>2. kevent(c) = [ok |-> TRUE, reg |-> reg]
    BY <2>1 DEF kevent
  <2>3. QED
    BY <1>4, <2>2 DEF kqueue_event_ctl, Filters
<1>5. QED
  BY <1>1, <1>2, <1>3, <1>4

\* The registrations for one filter of a descriptor.
With(R, fd, f) == {r \in R : r.fd = fd /\ FilterOf(f) \in r.what}

LEMMA ChangeAdds ==
  ASSUME NEW R, NEW ctl \in {"ADD", "MOD"}, NEW fd, NEW f, NEW m, NEW o
  PROVE  Change([ok |-> TRUE, reg |-> R], Kev(ctl, fd, f, [events |-> m, data |-> o])) =
           [ok |-> TRUE, reg |-> (R \ With(R, fd, f)) \cup {KqueueReg(fd, f, m, o)}]
<1> DEFINE k == Kev(ctl, fd, f, [events |-> m, data |-> o])
<1>1. /\ k.ident = fd /\ k.filter = FilterOf(f) /\ k.udata = o
      /\ k.flags = {"EV_ADD"} \cup (IF "ONESHOT" \in m THEN {"EV_ONESHOT"} ELSE {})
  BY DEF Kev, kevent_flags
<1>2. /\ "EV_DELETE" \notin k.flags /\ "EV_ADD" \in k.flags
      /\ k.flags \cap {"EV_ONESHOT"} = IF "ONESHOT" \in m THEN {"EV_ONESHOT"} ELSE {}
  BY <1>1
<1> HIDE DEF k
<1>3. Change([ok |-> TRUE, reg |-> R], k) =
        [ok |-> TRUE, reg |-> (R \ With(R, fd, f)) \cup {KqueueReg(fd, f, m, o)}]
  BY <1>1, <1>2, ZenonT(40) DEF Change, With, KqueueReg
<1>4. QED
  BY <1>3 DEF k

LEMMA ChangeDeletes ==
  ASSUME NEW R, NEW fd, NEW f, NEW m, NEW o, With(R, fd, f) # {}
  PROVE  Change([ok |-> TRUE, reg |-> R], Kev("DEL", fd, f, [events |-> m, data |-> o])) =
           [ok |-> TRUE, reg |-> R \ With(R, fd, f)]
<1> DEFINE k == Kev("DEL", fd, f, [events |-> m, data |-> o])
<1>1. /\ k.ident = fd /\ k.filter = FilterOf(f)
      /\ k.flags = {"EV_DELETE"} \cup (IF "ONESHOT" \in m THEN {"EV_ONESHOT"} ELSE {})
  BY DEF Kev, kevent_flags
<1>2. "EV_ADD" \notin k.flags
  BY <1>1
<1> HIDE DEF k
<1>3. Change([ok |-> TRUE, reg |-> R], k) = [ok |-> TRUE, reg |-> R \ With(R, fd, f)]
  BY <1>1, <1>2 DEF Change, With
<1>4. QED
  BY <1>3 DEF k

\* What the kernel holds for a descriptor on kqueue, filter by filter.
LEMMA OwnFilters ==
  ASSUME TidyInv, build = "kqueue", NEW fd \in Fds
  PROVE  /\ With(reg, fd, "IN") \cup With(reg, fd, "OUT") = Own(fd)
         /\ \A f \in {"IN", "OUT"} : With(reg, fd, f) =
              IF f \in mask[fd] \ Gone(fd) THEN {KqueueReg(fd, f, mask[fd], obj[fd])} ELSE {}
<1>1. ASSUME NEW f \in {"IN", "OUT"}
      PROVE  With(reg, fd, f) = {r \in Own(fd) : FilterOf(f) \in r.what}
  BY OwnIsAll DEF With, TidyInv
<1>2. Own(fd) = {KqueueReg(fd, g, mask[fd], obj[fd]) : g \in Filters(mask[fd]) \ Gone(fd)}
  BY DEF Own, Filters
<1>3. \A f, g \in {"IN", "OUT"} : FilterOf(f) \in KqueueReg(fd, g, mask[fd], obj[fd]).what <=> f = g
  BY DEF KqueueReg, FilterOf
<1>4. QED
  BY <1>1, <1>2, <1>3 DEF Filters

\* An addition or a modification succeeds and leaves what was asked for.
LEMMA CtlFresh ==
  ASSUME TidyInv, NEW fd \in Fds, NEW m, NEW o, NEW ctl \in {"ADD", "MOD"},
         (ctl = "ADD") <=> (mask[fd] = {}),
         build = "epoll" \/ Filters(mask[fd]) \subseteq Filters(m)
  PROVE  LET res == event_ctl(ctl, fd, [events |-> m, data |-> o])
         IN  res.ok /\ res.reg = (reg \ Own(fd)) \cup Fresh(fd, m, o)
<1> DEFINE ev == [events |-> m, data |-> o]
           res == event_ctl(ctl, fd, ev)
<1>1. CASE build = "epoll"
  <2>1. Own(fd) = {} <=> mask[fd] = {}
    BY <1>1 DEF Own
  <2>2. epoll_cmd(ctl) = IF ctl = "ADD" THEN "EPOLL_CTL_ADD" ELSE "EPOLL_CTL_MOD"
    BY DEF epoll_cmd
  <2>3. {r \in reg : r.fd = fd} = Own(fd)
    BY OwnIsAll DEF TidyInv
  <2>4. res = epoll_ctl(epoll_cmd(ctl), fd, event_to_epoll_event(ev))
    BY <1>1 DEF event_ctl, epoll_event_ctl
  <2>5. res.ok /\ res.reg = (reg \ Own(fd)) \cup {EpollReg(fd, m, o)}
    <3> DEFINE eev == event_to_epoll_event(ev)
    <3>1. eev.events = {EpollFlag[f] : f \in m} /\ eev.data = o
      BY DEF event_to_epoll_event
    <3> HIDE DEF eev, ev, res
    <3>2. [fd |-> fd, what |-> eev.events, data |-> eev.data] = EpollReg(fd, m, o)
      BY <3>1 DEF EpollReg
    <3>3. (epoll_cmd(ctl) = "EPOLL_CTL_ADD") <=> (Own(fd) = {})
      BY <2>1, <2>2
    <3>4. epoll_cmd(ctl) # "EPOLL_CTL_DEL"
      BY <2>2
    <3>5. res = [ok |-> TRUE, reg |-> (reg \ Own(fd)) \cup {EpollReg(fd, m, o)}]
      BY <2>3, <2>4, <3>2, <3>3, <3>4 DEF epoll_ctl, eev
    <3>6. QED
      BY <3>5
  <2>6. QED
    BY <1>1, <2>5 DEF Fresh
<1>2. CASE build = "kqueue"
  <2> DEFINE K(f) == KqueueReg(fd, f, m, o)
             none == [ok |-> TRUE, reg |-> reg]
             R1 == (reg \ With(reg, fd, "IN")) \cup {K("IN")}
  <2>1. res = kqueue_event_ctl(ctl, fd, ev)
    BY <1>2 DEF event_ctl
  <2>2. ev.events = m
    OBVIOUS
  <2>3. \A f \in {"IN", "OUT"} : f \notin Filters(m) => With(reg, fd, f) = {}
    BY <1>2, OwnFilters DEF Filters
  <2>4. With(reg, fd, "IN") \cup With(reg, fd, "OUT") = Own(fd)
    BY <1>2, OwnFilters
  <2>5. Fresh(fd, m, o) = {K(f) : f \in Filters(m)}
    BY <1>2 DEF Fresh
  <2>6. CASE Filters(m) = {}
    <3>1. res = none
      BY <2>1, <2>2, <2>6, KeventOf
    <3>2. QED
      BY <2>3, <2>4, <2>5, <2>6, <3>1
  <2>7. CASE Filters(m) = {"IN"}
    <3>1. res = Change(none, Kev(ctl, fd, "IN", ev))
      BY <2>1, <2>2, <2>7, KeventOf DEF Filters
    <3>2. res = [ok |-> TRUE, reg |-> R1]
      BY <3>1, ChangeAdds
    <3>3. QED
      BY <2>3, <2>4, <2>5, <2>7, <3>2
  <2>8. CASE Filters(m) = {"OUT"}
    <3>1. res = Change(none, Kev(ctl, fd, "OUT", ev))
      BY <2>1, <2>2, <2>8, KeventOf DEF Filters
    <3>2. res = [ok |-> TRUE, reg |-> (reg \ With(reg, fd, "OUT")) \cup {K("OUT")}]
      BY <3>1, ChangeAdds
    <3>3. QED
      BY <2>3, <2>4, <2>5, <2>8, <3>2
  <2>9. CASE Filters(m) = {"IN", "OUT"}
    <3>1. res = Change(Change(none, Kev(ctl, fd, "IN", ev)), Kev(ctl, fd, "OUT", ev))
      BY <2>1, <2>2, <2>9, KeventOf DEF Filters
    <3>2. Change(none, Kev(ctl, fd, "IN", ev)) = [ok |-> TRUE, reg |-> R1]
      BY ChangeAdds
    <3>3. res = [ok |-> TRUE, reg |-> (R1 \ With(R1, fd, "OUT")) \cup {K("OUT")}]
      <4> HIDE DEF R1
      <4>1. QED
        BY <3>1, <3>2, ChangeAdds
    <3>4. With(R1, fd, "OUT") = With(reg, fd, "OUT") \ With(reg, fd, "IN")
      BY DEF With, KqueueReg, FilterOf
    <3>5. {K(f) : f \in Filters(m)} = {K("IN"), K("OUT")}
      BY <2>9
    <3>6. K("IN") \notin With(R1, fd, "OUT")
      BY DEF With, KqueueReg, FilterOf
    <3> HIDE DEF K
    <3>7. (R1 \ With(R1, fd, "OUT")) \cup {K("OUT")} = (reg \ Own(fd)) \cup {K("IN"), K("OUT")}
      BY <2>4, <3>4, <3>6
    <3>8. QED
      BY <2>5, <3>3, <3>5, <3>7, SMTT(20)
  <2>10. QED
    BY <2>6, <2>7, <2>8, <2>9 DEF Filters
<1>3. QED
  BY <1>1, <1>2 DEF TidyInv, TypeOK

\* A deletion succeeds and leaves nothing: with kqueue, when it names what has
\* not fired.
LEMMA CtlDelete ==
  ASSUME TidyInv, NEW fd \in Fds, NEW m, mask[fd] # {},
         build = "epoll" \/ (~InBatch(fd) /\ Filters(m) = Filters(mask[fd] \ fired[fd]))
  PROVE  LET res == event_ctl("DEL", fd, [events |-> m, data |-> obj[fd]])
         IN  res.ok /\ res.reg = reg \ Own(fd)
<1> DEFINE ev == [events |-> m, data |-> obj[fd]]
           res == event_ctl("DEL", fd, ev)
<1>1. CASE build = "epoll"
  <2>1. Own(fd) # {}
    BY <1>1 DEF Own
  <2>2. {r \in reg : r.fd = fd} = Own(fd)
    BY OwnIsAll DEF TidyInv
  <2>3. res = epoll_ctl("EPOLL_CTL_DEL", fd, event_to_epoll_event(ev))
    BY <1>1 DEF event_ctl, epoll_event_ctl, epoll_cmd
  <2>4. res = [ok |-> TRUE, reg |-> reg \ Own(fd)]
    <3> HIDE DEF ev, res
    <3>1. QED
      BY <2>1, <2>2, <2>3 DEF epoll_ctl
  <2>5. QED
    BY <2>4
<1>2. CASE build = "kqueue"
  <2> DEFINE none == [ok |-> TRUE, reg |-> reg]
             W(f) == With(reg, fd, f)
             R1 == reg \ W("IN")
  <2>1. res = kqueue_event_ctl("DEL", fd, ev) /\ ev.events = m
    BY <1>2 DEF event_ctl
  <2>2. Gone(fd) = fired[fd]
    BY <1>2 DEF Gone, TidyInv, BookInv, InBatch
  <2>3. \A f \in {"IN", "OUT"} : f \in Filters(m) <=> W(f) # {}
    BY <1>2, <2>2, OwnFilters DEF Filters
  <2>4. W("IN") \cup W("OUT") = Own(fd)
    BY <1>2, OwnFilters
  <2>5. CASE Filters(m) = {}
    <3>1. res = none
      BY <2>1, <2>5, KeventOf
    <3>2. QED
      BY <2>3, <2>4, <2>5, <3>1
  <2>6. CASE Filters(m) = {"IN"}
    <3>1. res = Change(none, Kev("DEL", fd, "IN", ev))
      BY <2>1, <2>6, KeventOf DEF Filters
    <3>2. W("IN") # {} /\ W("OUT") = {}
      BY <2>3, <2>6
    <3>3. res = [ok |-> TRUE, reg |-> R1]
      BY <3>1, <3>2, ChangeDeletes
    <3>4. QED
      BY <2>4, <3>2, <3>3
  <2>7. CASE Filters(m) = {"OUT"}
    <3>1. res = Change(none, Kev("DEL", fd, "OUT", ev))
      BY <2>1, <2>7, KeventOf DEF Filters
    <3>2. W("OUT") # {} /\ W("IN") = {}
      BY <2>3, <2>7
    <3>3. res = [ok |-> TRUE, reg |-> reg \ W("OUT")]
      BY <3>1, <3>2, ChangeDeletes
    <3>4. QED
      BY <2>4, <3>2, <3>3
  <2>8. CASE Filters(m) = {"IN", "OUT"}
    <3>1. res = Change(Change(none, Kev("DEL", fd, "IN", ev)), Kev("DEL", fd, "OUT", ev))
      BY <2>1, <2>8, KeventOf DEF Filters
    <3>2. W("IN") # {} /\ W("OUT") # {}
      BY <2>3, <2>8
    <3>3. Change(none, Kev("DEL", fd, "IN", ev)) = [ok |-> TRUE, reg |-> R1]
      BY <3>2, ChangeDeletes
    <3>4. With(R1, fd, "OUT") = W("OUT") \ W("IN")
      BY DEF With
    <3>5. With(R1, fd, "OUT") # {}
      <4>1. \A f \in {"IN", "OUT"} : W(f) = {KqueueReg(fd, f, mask[fd], obj[fd])}
        BY <1>2, <3>2, OwnFilters
      <4>2. KqueueReg(fd, "OUT", mask[fd], obj[fd]) # KqueueReg(fd, "IN", mask[fd], obj[fd])
        <5>1. /\ "EVFILT_READ" \in KqueueReg(fd, "IN", mask[fd], obj[fd]).what
              /\ "EVFILT_READ" \notin KqueueReg(fd, "OUT", mask[fd], obj[fd]).what
          BY DEF KqueueReg, FilterOf
        <5>2. QED
          BY <5>1
      <4> HIDE DEF W
      <4>3. QED
        BY <3>4, <4>1, <4>2
    <3>6. res = [ok |-> TRUE, reg |-> R1 \ With(R1, fd, "OUT")]
      <4> HIDE DEF R1
      <4>1. QED
        BY <3>1, <3>3, <3>5, ChangeDeletes
    <3>7. R1 \ With(R1, fd, "OUT") = reg \ Own(fd)
      BY <2>4, <3>4
    <3> HIDE DEF R1, res
    <3>8. res.ok /\ res.reg = reg \ Own(fd)
      BY <3>6, <3>7
    <3>9. QED
      BY <3>8 DEF res
  <2>9. QED
    BY <2>5, <2>6, <2>7, <2>8 DEF Filters
<1>3. QED
  BY <1>1, <1>2 DEF TidyInv, TypeOK

--------------------------------------------------------------------------------
(* The steps.                                                              *)

\* A step that replaces what the kernel holds for one descriptor.
LEMMA RegStep ==
  ASSUME RegInv, NEW fd \in Fds, reg' = (reg \ Own(fd)) \cup Own(fd)',
         \A x \in Fds \ {fd} : Own(x)' = Own(x)
  PROVE  RegInv'
<1>1. ASSUME NEW r \in reg' PROVE \E x \in Fds : r \in Own(x)'
  BY DEF RegInv
<1>2. ASSUME NEW x \in Fds, NEW r \in Own(x)' PROVE r \in reg'
  <2>1. CASE x = fd
    BY <2>1
  <2>2. CASE x # fd
    <3>1. r \in Own(x) /\ r \in reg
      BY <2>2 DEF RegInv
    <3>2. r \notin Own(fd)
      BY <2>2, <3>1, FdOfOwn
    <3>3. QED
      BY <3>1, <3>2
  <2>3. QED
    BY <2>1, <2>2
<1>3. QED
  BY <1>1, <1>2 DEF RegInv

LEMMA FreshStep ==
  ASSUME TidyInv, NEW fd \in Fds, NEW m \in Masks[fd], NEW o \in Objects, NEW ctl \in {"ADD", "MOD"},
         strayed' \in BOOLEAN, Call(ctl, fd, [events |-> m, data |-> o], m, o),
         o \in Unused \/ o = obj[fd], ~InBatch(fd),
         (ctl = "ADD") <=> (mask[fd] = {}),
         build = "epoll" \/ Filters(mask[fd]) \subseteq Filters(m)
  PROVE  TidyInv'
<1> USE EventsAssumption
<1>1. LET res == event_ctl(ctl, fd, [events |-> m, data |-> o])
      IN  res.ok /\ res.reg = (reg \ Own(fd)) \cup Fresh(fd, m, o)
  BY CtlFresh
<1>2. /\ reg' = (reg \ Own(fd)) \cup Fresh(fd, m, o)
      /\ mask' = [mask EXCEPT ![fd] = m] /\ obj' = [obj EXCEPT ![fd] = o]
      /\ fired' = [fired EXCEPT ![fd] = {}]
      /\ UNCHANGED <<build, ready, batch>>
  BY <1>1 DEF Call
<1>3. m \in SUBSET Flags /\ m # {}
  BY MaskFacts
<1>4. TypeOK'
  BY <1>2, <1>3 DEF TypeOK, TidyInv
<1>5. \A ev \in batch : ev.data # o
  BY DEF Unused, InBatch, TidyInv, BatchOwned
<1>6. BookInv'
  BY <1>2, <1>3 DEF BookInv, TidyInv, TypeOK, Unused
<1>7. BatchOwned'
  BY <1>2, <1>3 DEF BatchOwned, TidyInv, TypeOK, InBatch
<1>8. RegInv'
  <2>1. mask'[fd] = m /\ obj'[fd] = o /\ Gone(fd)' = {}
    BY <1>2, <1>5 DEF Gone, TypeOK, TidyInv
  <2>2. Own(fd)' = Fresh(fd, m, o)
    <3>1. build' = build /\ m # {} /\ Filters(m) \ {} = Filters(m)
      BY <1>2, <1>3
    <3>2. CASE build = "epoll"
      BY <2>1, <3>1, <3>2 DEF Own, Fresh
    <3>3. CASE build # "epoll"
      BY <2>1, <3>1, <3>3 DEF Own, Fresh
    <3>4. QED
      BY <3>2, <3>3
  <2>3. ASSUME NEW x \in Fds \ {fd} PROVE Own(x)' = Own(x)
    <3>1. mask'[x] = mask[x] /\ obj'[x] = obj[x] /\ Gone(x)' = Gone(x) /\ build' = build
      BY <1>2 DEF Gone, TypeOK, TidyInv
    <3>2. QED
      BY <3>1 DEF Own
  <2>4. QED
    BY <1>2, <2>2, <2>3, RegStep DEF TidyInv
<1>9. QED
  BY <1>4, <1>6, <1>7, <1>8 DEF TidyInv

LEMMA DelStep ==
  ASSUME TidyInv, NEW fd \in Fds, Del(fd), Tidy'
  PROVE  TidyInv'
<1> USE EventsAssumption
<1>0. PICK events \in {mask[fd], mask[fd] \ fired[fd]} :
        /\ mask[fd] # {} /\ ~InBatch(fd)
        /\ Call("DEL", fd, [events |-> events, data |-> obj[fd]], {}, NoObject)
        /\ strayed' = (strayed \/ Filters(events) \cap fired[fd] # {})
  BY DEF Del
<1>1. /\ mask[fd] # {} /\ ~InBatch(fd)
      /\ Call("DEL", fd, [events |-> events, data |-> obj[fd]], {}, NoObject)
      /\ strayed' \in BOOLEAN
  BY <1>0
<1>2. LET res == event_ctl("DEL", fd, [events |-> events, data |-> obj[fd]])
      IN  res.ok /\ res.reg = reg \ Own(fd)
  <2>1. build' = build
    BY <1>1 DEF Call
  <2>2. ~strayed' => Filters(events) \cap fired[fd] = {}
    BY <1>0
  <2>3. build = "epoll" \/ Filters(events) \cap fired[fd] = {}
    BY <2>1, <2>2 DEF Tidy
  <2>4. Filters(events) \cap fired[fd] = {} => Filters(events) = Filters(mask[fd] \ fired[fd])
    BY DEF Filters
  <2>5. QED
    BY <1>1, <2>3, <2>4, CtlDelete
<1>3. /\ reg' = reg \ Own(fd)
      /\ mask' = [mask EXCEPT ![fd] = {}] /\ obj' = [obj EXCEPT ![fd] = NoObject]
      /\ fired' = [fired EXCEPT ![fd] = {}]
      /\ UNCHANGED <<build, ready, batch>>
  BY <1>1, <1>2 DEF Call
<1>4. TypeOK'
  <2>1. strayed' \in BOOLEAN
    BY <1>1
  <2>2. QED
    BY <1>3, <2>1 DEF TypeOK, TidyInv
<1>5. BookInv'
  BY <1>3 DEF BookInv, TidyInv, TypeOK
<1>6. BatchOwned'
  BY <1>1, <1>3 DEF BatchOwned, TidyInv, TypeOK, InBatch
<1>7. RegInv'
  <2>1. Own(fd)' = {}
    BY <1>3 DEF Own, TypeOK, TidyInv
  <2>2. ASSUME NEW x \in Fds \ {fd} PROVE Own(x)' = Own(x)
    <3>1. mask'[x] = mask[x] /\ obj'[x] = obj[x] /\ Gone(x)' = Gone(x) /\ build' = build
      BY <1>3 DEF Gone, TypeOK, TidyInv
    <3>2. QED
      BY <3>1 DEF Own
  <2>3. QED
    BY <1>3, <2>1, <2>2, RegStep DEF TidyInv
<1>8. QED
  BY <1>4, <1>5, <1>6, <1>7 DEF TidyInv

\* What event_wait makes of a registration of epoll, and of one of kqueue.
LEMMA EpollEvent ==
  ASSUME NEW P \in SUBSET Flags, NEW o
  PROVE  epoll_event_to_event([events |-> {EpollFlag[f] : f \in P}, data |-> o]) =
           [events |-> P, data |-> o]
<1>1. {f \in Flags : EpollFlag[f] \in {EpollFlag[g] : g \in P}} = P
  BY Names
<1>2. QED
  BY <1>1 DEF epoll_event_to_event

\* The event that kqueue_event_wait makes of a registration.
KqueueEvent(r) ==
  kevent_to_event([filter |-> CHOOSE w \in r.what : w # "EV_ONESHOT",
                   flags  |-> IF "RDHUP" \in ready[r.fd] /\ "EVFILT_READ" \in r.what THEN {"EV_EOF"} ELSE {},
                   udata  |-> r.data])

LEMMA KqueueEventOf ==
  ASSUME NEW fd, NEW f \in {"IN", "OUT"}, NEW m, NEW o
  PROVE  LET ev == KqueueEvent(KqueueReg(fd, f, m, o))
         IN  /\ ev = [events |-> ev.events, data |-> o]
             /\ ev.events \subseteq Reports /\ ev.events \cap {"IN", "OUT"} = {f}
<1> DEFINE r == KqueueReg(fd, f, m, o)
           fl == IF "RDHUP" \in ready[r.fd] /\ "EVFILT_READ" \in r.what THEN {"EV_EOF"} ELSE {}
           kev == [filter |-> CHOOSE w \in r.what : w # "EV_ONESHOT", flags |-> fl, udata |-> r.data]
<1>1. r.data = o /\ r.what = {FilterOf(f)} \cup (IF "ONESHOT" \in m THEN {"EV_ONESHOT"} ELSE {})
  BY DEF KqueueReg
<1>2. FilterOf(f) \in r.what /\ FilterOf(f) # "EV_ONESHOT" /\ \A w \in r.what : w # "EV_ONESHOT" => w = FilterOf(f)
  BY <1>1 DEF FilterOf
<1> HIDE DEF r
<1>3. (CHOOSE w \in r.what : w # "EV_ONESHOT") = FilterOf(f)
  BY <1>2
<1>4. kev.filter = FilterOf(f) /\ kev.udata = o
  BY <1>1, <1>3
<1> HIDE DEF kev
<1>5. LET ev == kevent_to_event(kev)
      IN  /\ ev = [events |-> ev.events, data |-> o]
          /\ ev.events \subseteq Reports /\ ev.events \cap {"IN", "OUT"} = {f}
  BY <1>4 DEF kevent_to_event, FilterOf, Reports
<1>6. KqueueEvent(r) = kevent_to_event(kev)
  BY DEF KqueueEvent, kev
<1>7. QED
  BY <1>5, <1>6 DEF r

\* Every registration belongs to a descriptor that the client watches.
LEMMA Owned ==
  ASSUME TidyInv, NEW r \in reg
  PROVE  /\ r.fd \in Fds /\ r \in Own(r.fd) /\ mask[r.fd] # {} /\ mask[r.fd] \in SUBSET Flags
         /\ r.data = obj[r.fd] /\ r.data \in Objects
<1>1. PICK fd \in Fds : r \in Own(fd)
  BY DEF TidyInv, RegInv
<1>2. r.fd = fd /\ mask[fd] # {}
  BY <1>1, FdOfOwn DEF Own
<1>3. r.data = obj[fd]
  BY <1>1 DEF Own, EpollReg, Disabled, KqueueReg
<1>4. QED
  BY <1>1, <1>2, <1>3 DEF TidyInv, TypeOK, BookInv

\* The event that event_wait makes of a registration.
EventOf(r) == IF build = "epoll" THEN [events |-> Pending(r), data |-> r.data] ELSE KqueueEvent(r)

LEMMA EventOfOwn ==
  ASSUME TidyInv, NEW r \in reg, Pending(r) # {}
  PROVE  /\ EventOf(r) \in Event /\ EventOf(r).data = r.data
         /\ EventOf(r).events # {} /\ EventOf(r).events \subseteq Reports
<1>0. r.fd \in Fds /\ r \in Own(r.fd) /\ mask[r.fd] # {} /\ r.data \in Objects
  BY Owned
<1>1. CASE build = "epoll"
  <2>1. Pending(r) \subseteq Reports
    BY <1>0 DEF Pending, TidyInv, TypeOK, Reports
  <2>2. QED
    BY <1>0, <1>1, <2>1 DEF EventOf, Event, Reports, Flags
<1>2. CASE build # "epoll"
  <2>1. PICK f \in Filters(mask[r.fd]) : r = KqueueReg(r.fd, f, mask[r.fd], obj[r.fd])
    BY <1>0, <1>2 DEF Own
  <2>2. f \in {"IN", "OUT"}
    BY DEF Filters
  <2>3. r.data = obj[r.fd]
    BY Owned
  <2> DEFINE ev == KqueueEvent(r)
  <2>4. /\ ev = [events |-> ev.events, data |-> r.data]
        /\ ev.events \subseteq Reports /\ ev.events \cap {"IN", "OUT"} = {f}
    BY <2>1, <2>2, <2>3, KqueueEventOf
  <2> HIDE DEF ev
  <2>5. ev.data = r.data /\ ev.events # {} /\ ev \in Event
    BY <1>0, <2>4 DEF Event, Reports, Flags
  <2>6. QED
    BY <1>2, <2>4, <2>5 DEF EventOf, ev
<1>3. QED
  BY <1>1, <1>2

LEMMA WaitStep ==
  ASSUME TidyInv, Wait
  PROVE  TidyInv'
<1> DEFINE some == {r \in reg : Pending(r) # {}}
<1>1. PICK rs \in SUBSET some :
        /\ batch' = IF build = "epoll" THEN epoll_event_wait(rs) ELSE kqueue_event_wait(rs)
        /\ reg' = (reg \ rs) \cup Reported(rs)
  BY DEF Wait, kSubset
<1>2. batch = {} /\ UNCHANGED <<build, ready, mask, obj, fired, strayed>>
  BY DEF Wait
<1>3. \A r \in rs : r \in reg /\ Pending(r) # {}
  OBVIOUS
<1> HIDE DEF some
<1>4. \A r \in rs : Pending(r) \in SUBSET Flags
  BY <1>3, Owned DEF Pending, TidyInv, TypeOK, Flags
<1>5. batch' = {EventOf(r) : r \in rs}
  <2>1. CASE build = "epoll"
    <3>1. \A r \in rs : epoll_event_to_event([events |-> {EpollFlag[f] : f \in Pending(r)}, data |-> r.data])
                          = EventOf(r)
      BY <1>4, <2>1, EpollEvent DEF EventOf
    <3>2. QED
      BY <1>1, <2>1, <3>1 DEF epoll_event_wait
  <2>2. CASE build # "epoll"
    BY <1>1, <2>2 DEF kqueue_event_wait, KqueueEvent, EventOf
  <2>3. QED
    BY <2>1, <2>2
<1>6. \A r \in rs : /\ EventOf(r) \in Event /\ EventOf(r).data = r.data
                    /\ EventOf(r).events # {} /\ EventOf(r).events \subseteq Reports
  BY <1>3, EventOfOwn
<1>7. TypeOK'
  BY <1>2, <1>5, <1>6 DEF TypeOK, TidyInv
<1>8. BookInv'
  BY <1>2, <1>5, <1>6 DEF BookInv, TidyInv
<1>9. BatchOwned'
  BY <1>2, <1>3, <1>5, <1>6, Owned DEF BatchOwned
<1> DEFINE told(fd) == UNION {EventOf(r).events : r \in {x \in rs : x.fd = fd}}
<1>10. ASSUME NEW fd \in Fds, mask[fd] # {}
       PROVE  /\ Gone(fd) = IF "ONESHOT" \in mask[fd] THEN fired[fd] ELSE {}
              /\ Gone(fd)' = IF "ONESHOT" \in mask[fd] THEN fired[fd] \cup told(fd) ELSE {}
  <2>1. Gone(fd) = IF "ONESHOT" \in mask[fd] THEN fired[fd] ELSE {}
    BY <1>2 DEF Gone
  <2>2. obj[fd] \in Objects /\ NoObject \notin Objects
    BY <1>10, EventsAssumption DEF TidyInv, BookInv
  <2>3. \A r \in rs : EventOf(r).data = obj[fd] <=> r.fd = fd
    BY <1>3, <1>6, <2>2, Owned DEF TidyInv, BookInv
  <2>4. {ev.events : ev \in {e \in batch' : e.data = obj[fd]}} = {EventOf(r).events : r \in {x \in rs : x.fd = fd}}
    BY <1>5, <2>3
  <2>5. QED
    BY <1>2, <2>1, <2>4 DEF Gone
<1>11. CASE build = "epoll"
  <2>1. ASSUME NEW fd \in Fds, mask[fd] # {}, NEW r, Own(fd) = {r}
        PROVE  Own(fd)' = IF r \in rs THEN Reported({r}) ELSE {r}
    <3> DEFINE full == EpollReg(fd, mask[fd], obj[fd])
               dis == Disabled(fd, obj[fd])
    <3>0. mask[fd] \in SUBSET Flags
      BY DEF TidyInv, TypeOK
    <3>1. "EPOLLONESHOT" \in full.what <=> "ONESHOT" \in mask[fd]
      BY <3>0, Names DEF EpollReg
    <3>2. [full EXCEPT !.what = {"EPOLLONESHOT"}] = dis
      <4>1. ASSUME NEW x, NEW w, NEW o
            PROVE  [[fd |-> x, what |-> w, data |-> o] EXCEPT !.what = {"EPOLLONESHOT"}] =
                     [fd |-> x, what |-> {"EPOLLONESHOT"}, data |-> o]
        OBVIOUS
      <4>2. QED
        BY <4>1 DEF EpollReg, Disabled
    <3>3. r = IF Gone(fd) = {} THEN full ELSE dis
      BY <1>11, <2>1 DEF Own
    <3>4. Own(fd)' = {IF Gone(fd)' = {} THEN full ELSE dis}
      BY <1>2, <1>11, <2>1 DEF Own
    <3>5. r.fd = fd
      BY <2>1, FdOfOwn
    <3>6. CASE r \in rs
      <4>1. Pending(dis) = {}
        <5>1. dis.fd = fd /\ dis.what = {"EPOLLONESHOT"}
          BY DEF Disabled
        <5>2. ready[fd] \subseteq {"IN", "OUT", "RDHUP"}
          BY DEF TidyInv, TypeOK
        <5> HIDE DEF dis
        <5>3. QED
          BY <5>1, <5>2 DEF Pending
      <4>2. r = full /\ Gone(fd) = {}
        BY <1>3, <3>3, <3>6, <4>1
      <4>3. CASE "ONESHOT" \in mask[fd]
        <5>1. Gone(fd)' # {}
          BY <1>6, <1>10, <2>1, <3>5, <3>6, <4>3
        <5>2. Reported({r}) = {dis}
          <6> HIDE DEF full, dis
          <6>1. QED
            BY <1>11, <3>1, <3>2, <4>2, <4>3 DEF Reported
        <5>3. QED
          BY <3>4, <3>6, <5>1, <5>2
      <4>4. CASE "ONESHOT" \notin mask[fd]
        <5>1. Gone(fd)' = {}
          BY <1>10, <2>1, <4>4
        <5>2. Reported({r}) = {full}
          <6> HIDE DEF full, dis
          <6>1. QED
            BY <1>11, <3>1, <4>2, <4>4 DEF Reported
        <5>3. QED
          BY <3>4, <3>6, <5>1, <5>2
      <4>5. QED
        BY <4>3, <4>4
    <3>7. CASE r \notin rs
      <4>1. \A x \in rs : x.fd # fd
        BY <1>3, <2>1, <3>7, Owned
      <4>2. told(fd) = {}
        BY <4>1
      <4>3. Gone(fd)' = Gone(fd)
        BY <1>10, <2>1, <4>2
      <4>4. QED
        BY <3>3, <3>4, <3>7, <4>3
    <3>8. QED
      BY <3>6, <3>7
  <2>2. ASSUME NEW fd \in Fds, mask[fd] = {} PROVE Own(fd) = {} /\ Own(fd)' = {}
    BY <1>2, <2>2 DEF Own
  <2>3. ASSUME NEW fd \in Fds, mask[fd] # {} PROVE \E r : Own(fd) = {r}
    BY <1>11, <2>3 DEF Own
  <2>4. \A r : Reported({r}) = {IF "EPOLLONESHOT" \in r.what THEN [r EXCEPT !.what = {"EPOLLONESHOT"}] ELSE r}
    BY <1>11 DEF Reported
  <2>5. \A y : y \in Reported(rs) <=> \E r \in rs : y \in Reported({r})
    BY <1>11, <2>4 DEF Reported
  <2>6. ASSUME NEW y \in reg' PROVE \E fd \in Fds : y \in Own(fd)'
    <3>1. CASE y \in reg \ rs
      <4>1. y.fd \in Fds /\ mask[y.fd] # {} /\ y \in Own(y.fd) /\ y \notin rs
        BY <3>1, Owned
      <4>2. Own(y.fd) = {y}
        BY <2>3, <4>1
      <4>3. Own(y.fd)' = {y}
        BY <2>1, <4>1, <4>2
      <4>4. QED
        BY <4>1, <4>3
    <3>2. ASSUME NEW r \in rs, y \in Reported({r}) PROVE \E fd \in Fds : y \in Own(fd)'
      <4>1. Own(r.fd)' = Reported({r})
        BY <1>3, <2>1, <2>3, Owned
      <4>2. QED
        BY <1>3, <3>2, <4>1, Owned
    <3>3. QED
      BY <1>1, <2>5, <3>1, <3>2
  <2>7. ASSUME NEW fd \in Fds, NEW y \in Own(fd)' PROVE y \in reg'
    <3>1. mask[fd] # {}
      BY <2>2, <2>7
    <3>2. PICK r : Own(fd) = {r}
      BY <2>3, <3>1
    <3>3. r \in reg
      BY <3>2 DEF TidyInv, RegInv
    <3>4. CASE r \in rs
      <4>1. y \in Reported({r})
        BY <2>1, <2>7, <3>1, <3>2, <3>4
      <4>2. QED
        BY <1>1, <2>5, <3>4, <4>1
    <3>5. CASE r \notin rs
      <4>1. y = r
        BY <2>1, <2>7, <3>1, <3>2, <3>5
      <4>2. QED
        BY <1>1, <3>3, <3>5, <4>1
    <3>6. QED
      BY <3>4, <3>5
  <2>8. RegInv'
    BY <2>6, <2>7 DEF RegInv
  <2>9. QED
    BY <1>7, <1>8, <1>9, <2>8 DEF TidyInv
<1>12. CASE build # "epoll"
  <2> DEFINE K(fd, f) == KqueueReg(fd, f, mask[fd], obj[fd])
  <2>1. \A fd \in Fds : /\ Own(fd) = {K(fd, f) : f \in Filters(mask[fd]) \ Gone(fd)}
                        /\ Own(fd)' = {K(fd, f) : f \in Filters(mask[fd]) \ Gone(fd)'}
    BY <1>2, <1>12 DEF Own, Filters
  <2>2. Reported(rs) = {r \in rs : "EV_ONESHOT" \notin r.what}
    BY <1>12 DEF Reported
  <2>3. \A fd \in Fds, f \in {"IN", "OUT"} :
          /\ "EV_ONESHOT" \in K(fd, f).what <=> "ONESHOT" \in mask[fd]
          /\ K(fd, f).fd = fd
          /\ EventOf(K(fd, f)).events \cap {"IN", "OUT"} = {f}
    <3>1. \A fd \in Fds, f \in {"IN", "OUT"} :
            ("EV_ONESHOT" \in K(fd, f).what <=> "ONESHOT" \in mask[fd]) /\ K(fd, f).fd = fd
      BY DEF KqueueReg, FilterOf
    <3>2. \A fd \in Fds, f \in {"IN", "OUT"} : EventOf(K(fd, f)) = KqueueEvent(K(fd, f))
      BY <1>12 DEF EventOf
    <3>3. \A fd \in Fds, f \in {"IN", "OUT"} : KqueueEvent(K(fd, f)).events \cap {"IN", "OUT"} = {f}
      BY KqueueEventOf
    <3> HIDE DEF K
    <3>4. QED
      BY <3>1, <3>2, <3>3
  <2>4. \A r \in reg : \E f \in {"IN", "OUT"} : f \in mask[r.fd] \ Gone(r.fd) /\ r = K(r.fd, f)
    BY <2>1, Owned DEF Filters
  <2> HIDE DEF K
  <2>5. ASSUME NEW fd \in Fds, mask[fd] # {}, NEW f \in {"IN", "OUT"}
        PROVE  f \in Gone(fd)' <=> f \in Gone(fd) \/ ("ONESHOT" \in mask[fd] /\ K(fd, f) \in rs)
    <3>1. f \in told(fd) <=> \E r \in rs : r.fd = fd /\ f \in EventOf(r).events
      OBVIOUS
    <3>2. ASSUME NEW r \in rs, r.fd = fd PROVE f \in EventOf(r).events <=> r = K(fd, f)
      <4>1. PICK g \in {"IN", "OUT"} : r = K(fd, g)
        BY <1>3, <2>4, <3>2
      <4>2. f \in EventOf(r).events <=> f = g
        BY <2>3, <4>1
      <4>3. K(fd, f) = K(fd, g) => f = g
        BY <2>3
      <4>4. QED
        BY <4>1, <4>2, <4>3
    <3>3. f \in told(fd) <=> K(fd, f) \in rs
      BY <2>3, <3>1, <3>2
    <3> HIDE DEF told
    <3>4. QED
      BY <1>10, <2>5, <3>3
  <2>6. ASSUME NEW r \in reg' PROVE \E fd \in Fds : r \in Own(fd)'
    <3>1. r \in reg /\ (r \in rs => "EV_ONESHOT" \notin r.what)
      BY <1>1, <1>3, <2>2
    <3>2. PICK f \in {"IN", "OUT"} : f \in mask[r.fd] \ Gone(r.fd) /\ r = K(r.fd, f)
      BY <2>4, <3>1
    <3>3. r.fd \in Fds /\ mask[r.fd] # {}
      BY <3>1, Owned
    <3>4. f \notin Gone(r.fd)'
      BY <2>3, <2>5, <3>1, <3>2, <3>3
    <3>5. QED
      BY <2>1, <3>2, <3>3, <3>4 DEF Filters
  <2>7. ASSUME NEW fd \in Fds, NEW r \in Own(fd)' PROVE r \in reg'
    <3>1. PICK f \in {"IN", "OUT"} : f \in mask[fd] \ Gone(fd)' /\ r = K(fd, f)
      BY <2>1 DEF Filters
    <3>2. f \notin Gone(fd) /\ ~("ONESHOT" \in mask[fd] /\ r \in rs)
      BY <2>5, <3>1
    <3>3. r \in reg
      BY <2>1, <3>1, <3>2 DEF TidyInv, RegInv, Filters
    <3>4. r \in rs => "EV_ONESHOT" \notin r.what
      BY <2>3, <3>1, <3>2
    <3>5. QED
      BY <1>1, <2>2, <3>3, <3>4
  <2>8. RegInv'
    BY <2>6, <2>7 DEF RegInv
  <2>9. QED
    BY <1>7, <1>8, <1>9, <2>8 DEF TidyInv
<1>13. QED
  BY <1>11, <1>12

\* An event that is handled moves from the batch to what has fired.
LEMMA HandleBooks ==
  ASSUME TypeOK, BookInv, NEW fd \in Fds, NEW ev \in batch, Handle(fd, ev)
  PROVE  /\ TypeOK' /\ BookInv' /\ \A x \in Fds : Gone(x)' = Gone(x)
         /\ batch' \subseteq batch /\ UNCHANGED <<build, reg, mask, obj, strayed>>
<1>1. /\ ev.data = obj[fd] /\ batch' = batch \ {ev} /\ UNCHANGED <<build, reg, mask, obj, strayed>>
      /\ fired' = IF "ONESHOT" \in mask[fd] THEN [fired EXCEPT ![fd] = @ \cup ev.events] ELSE fired
  BY DEF Handle
<1>2. ev.data \in Objects /\ ev.events \subseteq Reports /\ obj[fd] # NoObject /\ mask[fd] # {}
  BY <1>1, EventsAssumption DEF TypeOK, Event, BookInv
<1>3. TypeOK'
  <2>1. ready' \in [Fds -> SUBSET {"IN", "OUT", "RDHUP"}]
    BY DEF Handle, TypeOK
  <2>2. fired' \in [Fds -> SUBSET {"IN", "OUT", "RDHUP"}]
    BY <1>1, <1>2 DEF TypeOK, Reports
  <2>3. QED
    BY <1>1, <2>1, <2>2 DEF TypeOK
<1>4. BookInv'
  BY <1>1, <1>2 DEF BookInv, TypeOK
<1>6. ASSUME NEW x \in Fds PROVE Gone(x)' = Gone(x)
  <2>1. CASE x = fd
    <3>1. CASE "ONESHOT" \in mask[fd]
      <4>1. fired'[fd] = fired[fd] \cup ev.events
        BY <1>1, <3>1 DEF TypeOK
      <4>2. UNION {e.events : e \in {y \in batch : y.data = obj[fd]}} =
              ev.events \cup UNION {e.events : e \in {y \in batch' : y.data = obj[fd]}}
        BY <1>1
      <4>3. QED
        BY <1>1, <2>1, <3>1, <4>1, <4>2 DEF Gone
    <3>2. CASE "ONESHOT" \notin mask[fd]
      BY <1>1, <2>1, <3>2 DEF Gone
    <3>3. QED
      BY <3>1, <3>2
  <2>2. CASE x # fd
    <3>1. ev.data # obj[x]
      BY <1>1, <1>2, <2>2 DEF BookInv
    <3>2. {y \in batch' : y.data = obj[x]} = {y \in batch : y.data = obj[x]}
      BY <1>1, <3>1
    <3>3. fired'[x] = fired[x]
      BY <1>1, <2>2 DEF TypeOK
    <3>4. QED
      BY <1>1, <3>2, <3>3 DEF Gone
  <2>3. QED
    BY <2>1, <2>2
<1>7. QED
  BY <1>1, <1>3, <1>4, <1>6

LEMMA HandleStep ==
  ASSUME TidyInv, NEW fd \in Fds, NEW ev \in batch, Handle(fd, ev)
  PROVE  TidyInv'
<1>1. /\ TypeOK' /\ BookInv' /\ \A x \in Fds : Gone(x)' = Gone(x)
      /\ batch' \subseteq batch /\ UNCHANGED <<build, reg, mask, obj, strayed>>
  BY HandleBooks DEF TidyInv
<1>2. BatchOwned'
  BY <1>1 DEF BatchOwned, TidyInv
<1>3. RegInv'
  <2>1. \A x \in Fds : Own(x)' = Own(x)
    BY <1>1 DEF Own
  <2>2. QED
    BY <1>1, <2>1 DEF RegInv, TidyInv
<1>4. QED
  BY <1>1, <1>2, <1>3 DEF TidyInv

LEMMA IdleStep ==
  ASSUME TidyInv, UNCHANGED <<build, reg, mask, obj, fired, batch, strayed>>,
         ready' \in [Fds -> SUBSET {"IN", "OUT", "RDHUP"}]
  PROVE  TidyInv'
<1>1. TypeOK' /\ BookInv' /\ BatchOwned'
  BY DEF TidyInv, TypeOK, BookInv, BatchOwned
<1>2. ASSUME NEW x \in Fds PROVE Own(x)' = Own(x)
  <2>1. Gone(x)' = Gone(x)
    BY DEF Gone
  <2>2. QED
    BY <2>1, SMTT(20) DEF Own
<1>3. RegInv'
  BY <1>2 DEF TidyInv, RegInv
<1>4. QED
  BY <1>1, <1>3 DEF TidyInv

\* Every step of a client that has not strayed, or that has epoll.
LEMMA TidyNext ==
  ASSUME TidyInv, Tidy', Next
  PROVE  TidyInv'
<1> USE EventsAssumption
<1>1. ASSUME NEW fd \in Fds, Add(fd) PROVE TidyInv'
  <2>1. mask[fd] = {} /\ Filters(mask[fd]) = {} /\ strayed' \in BOOLEAN
    BY <1>1 DEF Add, Filters, TidyInv, TypeOK
  <2>2. ~InBatch(fd)
    BY <2>1 DEF InBatch, TidyInv, BookInv, TypeOK, Event
  <2>3. PICK m \in Masks[fd], o \in Unused : Call("ADD", fd, [events |-> m, data |-> o], m, o)
    BY <1>1 DEF Add
  <2>4. o \in Objects
    BY DEF Unused
  <2>5. QED
    BY <2>1, <2>2, <2>3, <2>4, FreshStep
<1>2. ASSUME NEW fd \in Fds, Mod(fd) PROVE TidyInv'
  <2>1. mask[fd] # {} /\ ~InBatch(fd)
    BY <1>2 DEF Mod
  <2>2. PICK m \in Masks[fd], o \in Unused \cup {obj[fd]} :
          /\ Call("MOD", fd, [events |-> m, data |-> o], m, o)
          /\ strayed' = (strayed \/ ~(Filters(mask[fd]) \subseteq Filters(m)))
    BY <1>2 DEF Mod
  <2>3. o \in Objects
    BY <2>1 DEF Unused, TidyInv, BookInv
  <2>4. strayed' \in BOOLEAN /\ (~strayed' => Filters(mask[fd]) \subseteq Filters(m))
    BY <2>2
  <2>5. build' = build
    BY <2>2 DEF Call
  <2>6. build = "epoll" \/ Filters(mask[fd]) \subseteq Filters(m)
    BY <2>4, <2>5 DEF Tidy
  <2>7. QED
    BY <2>1, <2>2, <2>3, <2>4, <2>6, FreshStep
<1>3. ASSUME NEW fd \in Fds, Renew(fd) PROVE TidyInv'
  <2>1. /\ mask[fd] # {} /\ ~InBatch(fd) /\ strayed' \in BOOLEAN
        /\ Call("MOD", fd, [events |-> mask[fd], data |-> obj[fd]], mask[fd], obj[fd])
    BY <1>3 DEF Renew, TidyInv, BookInv, TypeOK
  <2>2. mask[fd] \in Masks[fd] /\ obj[fd] \in Objects
    BY <2>1 DEF TidyInv, BookInv
  <2>3. QED
    BY <2>1, <2>2, FreshStep
<1>4. ASSUME NEW fd \in Fds, Arrive(fd) PROVE TidyInv'
  <2>1. UNCHANGED <<build, reg, mask, obj, fired, batch, strayed>>
    BY <1>4 DEF Arrive, client
  <2>2. ready' \in [Fds -> SUBSET {"IN", "OUT", "RDHUP"}]
    BY <1>4 DEF Arrive, TidyInv, TypeOK
  <2>3. QED
    BY <2>1, <2>2, IdleStep
<1>5. ASSUME NEW ev \in batch, Discard(ev) PROVE FALSE
  BY <1>5 DEF Discard, TidyInv, BatchOwned
<1>6. QED
  BY <1>1, <1>2, <1>3, <1>4, <1>5, WaitStep, DelStep, HandleStep DEF Next

--------------------------------------------------------------------------------
(* With kqueue, whatever the client does.                                  *)

\* An addition or a modification leaves what is asked for, and takes nothing
\* from other descriptors.
LEMMA KqueueAsks ==
  ASSUME build = "kqueue", NEW fd, NEW m, NEW o, NEW ctl \in {"ADD", "MOD"}
  PROVE  LET res == event_ctl(ctl, fd, [events |-> m, data |-> o])
         IN  /\ res.ok
             /\ \A f \in Filters(m) : KqueueReg(fd, f, m, o) \in res.reg
             /\ \A r \in res.reg : r \in reg \/ \E f \in Filters(m) : r = KqueueReg(fd, f, m, o)
             /\ \A r \in reg : r.fd # fd => r \in res.reg
<1> DEFINE ev == [events |-> m, data |-> o]
           res == event_ctl(ctl, fd, ev)
           none == [ok |-> TRUE, reg |-> reg]
           K(f) == KqueueReg(fd, f, m, o)
           R1 == (reg \ With(reg, fd, "IN")) \cup {K("IN")}
<1>1. res = kqueue_event_ctl(ctl, fd, ev) /\ ev.events = m
  BY DEF event_ctl
<1>2. \A R, f : \A r \in With(R, fd, f) : r.fd = fd
  BY DEF With
<1>3. CASE Filters(m) = {}
  <2>1. res = none
    BY <1>1, <1>3, KeventOf
  <2>2. QED
    BY <1>3, <2>1
<1>4. CASE Filters(m) = {"IN"}
  <2>1. res = Change(none, Kev(ctl, fd, "IN", ev))
    BY <1>1, <1>4, KeventOf DEF Filters
  <2>2. res = [ok |-> TRUE, reg |-> R1]
    BY <2>1, ChangeAdds
  <2> HIDE DEF K
  <2>3. QED
    BY <1>2, <1>4, <2>2 DEF K
<1>5. CASE Filters(m) = {"OUT"}
  <2>1. res = Change(none, Kev(ctl, fd, "OUT", ev))
    BY <1>1, <1>5, KeventOf DEF Filters
  <2>2. res = [ok |-> TRUE, reg |-> (reg \ With(reg, fd, "OUT")) \cup {K("OUT")}]
    BY <2>1, ChangeAdds
  <2>3. QED
    BY <1>2, <1>5, <2>2
<1>6. CASE Filters(m) = {"IN", "OUT"}
  <2>1. res = Change(Change(none, Kev(ctl, fd, "IN", ev)), Kev(ctl, fd, "OUT", ev))
    BY <1>1, <1>6, KeventOf DEF Filters
  <2>2. Change(none, Kev(ctl, fd, "IN", ev)) = [ok |-> TRUE, reg |-> R1]
    BY ChangeAdds
  <2>3. res = [ok |-> TRUE, reg |-> (R1 \ With(R1, fd, "OUT")) \cup {K("OUT")}]
    <3> HIDE DEF R1
    <3>1. QED
      BY <2>1, <2>2, ChangeAdds
  <2>4. K("IN") \notin With(R1, fd, "OUT")
    BY DEF With, KqueueReg, FilterOf
  <2>5. \A r \in R1 : r \in reg \/ r = K("IN")
    OBVIOUS
  <2>6. \A r \in reg : r.fd # fd => r \in R1
    BY <1>2
  <2>7. K("IN") \in R1
    OBVIOUS
  <2> HIDE DEF R1, K, res
  <2>8. res.ok /\ res.reg = (R1 \ With(R1, fd, "OUT")) \cup {K("OUT")}
    BY <2>3
  <2>9. \A f \in Filters(m) : K(f) \in res.reg
    BY <1>6, <2>4, <2>7, <2>8
  <2>10. \A r \in res.reg : r \in reg \/ \E f \in Filters(m) : r = K(f)
    BY <1>6, <2>5, <2>8
  <2>11. \A r \in reg : r.fd # fd => r \in res.reg
    BY <1>2, <2>6, <2>8
  <2>12. QED
    BY <2>8, <2>9, <2>10, <2>11 DEF K, res
<1>7. QED
  BY <1>3, <1>4, <1>5, <1>6 DEF Filters

\* A deletion stops at a filter that is not registered.
LEMMA ChangeFails ==
  ASSUME NEW R, NEW fd, NEW f, NEW m, NEW o, With(R, fd, f) = {}
  PROVE  Change([ok |-> TRUE, reg |-> R], Kev("DEL", fd, f, [events |-> m, data |-> o])) =
           [ok |-> FALSE, reg |-> R]
<1> DEFINE k == Kev("DEL", fd, f, [events |-> m, data |-> o])
<1>1. k.ident = fd /\ k.filter = FilterOf(f) /\ "EV_DELETE" \in k.flags
  BY DEF Kev, kevent_flags
<1> HIDE DEF k
<1>2. Change([ok |-> TRUE, reg |-> R], k) = [ok |-> FALSE, reg |-> R]
  BY <1>1 DEF Change, With
<1>3. QED
  BY <1>2 DEF k

\* It only takes away registrations of its descriptor, and succeeds when all
\* that it names is registered.
LEMMA KqueueDeletes ==
  ASSUME build = "kqueue", NEW fd, NEW m, NEW o, NEW n, NEW p
  PROVE  LET res == event_ctl("DEL", fd, [events |-> m, data |-> o])
         IN  /\ res.reg \subseteq reg
             /\ \A r \in reg : r.fd # fd => r \in res.reg
             /\ (\A f \in Filters(m) : KqueueReg(fd, f, n, p) \in reg) => res.ok
<1> DEFINE ev == [events |-> m, data |-> o]
           res == event_ctl("DEL", fd, ev)
           none == [ok |-> TRUE, reg |-> reg]
           R1 == reg \ With(reg, fd, "IN")
           K(f) == KqueueReg(fd, f, n, p)
<1>1. res = kqueue_event_ctl("DEL", fd, ev) /\ ev.events = m
  BY DEF event_ctl
<1>2. \A R, f : \A r \in With(R, fd, f) : r.fd = fd
  BY DEF With
<1>3. \A R : \A f \in {"IN", "OUT"} : K(f) \in R => With(R, fd, f) # {}
  BY DEF With, KqueueReg
<1>4. K("OUT") \notin With(reg, fd, "IN")
  BY DEF With, KqueueReg, FilterOf
<1>5. \A f \in {"IN", "OUT"} :
        Change(none, Kev("DEL", fd, f, ev)) =
          IF With(reg, fd, f) = {} THEN [ok |-> FALSE, reg |-> reg]
          ELSE [ok |-> TRUE, reg |-> reg \ With(reg, fd, f)]
  BY ChangeFails, ChangeDeletes
<1>6. CASE Filters(m) = {}
  <2>1. res = none
    BY <1>1, <1>6, KeventOf
  <2>2. QED
    BY <2>1
<1>7. ASSUME NEW f \in {"IN", "OUT"}, Filters(m) = {f}
      PROVE  /\ res.reg \subseteq reg /\ \A r \in reg : r.fd # fd => r \in res.reg
             /\ K(f) \in reg => res.ok
  <2>1. res = Change(none, Kev("DEL", fd, f, ev))
    BY <1>1, <1>7, KeventOf DEF Filters
  <2> HIDE DEF res, K
  <2>2. CASE With(reg, fd, f) = {}
    <3>1. res = [ok |-> FALSE, reg |-> reg] /\ K(f) \notin reg
      BY <1>3, <1>5, <2>1, <2>2
    <3>2. QED
      BY <3>1
  <2>3. CASE With(reg, fd, f) # {}
    <3>1. res = [ok |-> TRUE, reg |-> reg \ With(reg, fd, f)]
      BY <1>5, <2>1, <2>3
    <3>2. QED
      BY <1>2, <3>1
  <2>4. QED
    BY <2>2, <2>3
<1>8. CASE Filters(m) = {"IN", "OUT"}
  <2>1. res = Change(Change(none, Kev("DEL", fd, "IN", ev)), Kev("DEL", fd, "OUT", ev))
    BY <1>1, <1>8, KeventOf DEF Filters
  <2>2. CASE With(reg, fd, "IN") = {}
    <3>1. res = Change([ok |-> FALSE, reg |-> reg], Kev("DEL", fd, "OUT", ev))
      BY <1>5, <2>1, <2>2
    <3>2. res = [ok |-> FALSE, reg |-> reg]
      BY <3>1 DEF Change
    <3>3. K("IN") \notin reg
      BY <1>3, <2>2
    <3>4. QED
      BY <1>8, <3>2, <3>3
  <2>3. CASE With(reg, fd, "IN") # {}
    <3>1. res = Change([ok |-> TRUE, reg |-> R1], Kev("DEL", fd, "OUT", ev))
      BY <1>5, <2>1, <2>3
    <3>2. R1 \subseteq reg /\ (\A r \in reg : r.fd # fd => r \in R1) /\ (K("OUT") \in reg => K("OUT") \in R1)
      BY <1>2, <1>4
    <3> HIDE DEF R1
    <3>3. res = IF With(R1, fd, "OUT") = {} THEN [ok |-> FALSE, reg |-> R1]
                ELSE [ok |-> TRUE, reg |-> R1 \ With(R1, fd, "OUT")]
      BY <3>1, ChangeFails, ChangeDeletes
    <3> HIDE DEF K, res
    <3>4. res.reg \subseteq reg /\ \A r \in reg : r.fd # fd => r \in res.reg
      BY <1>2, <3>2, <3>3
    <3>5. K("OUT") \in reg => res.ok
      BY <1>3, <3>2, <3>3
    <3>6. QED
      BY <1>8, <3>4, <3>5 DEF K, res
  <2>4. QED
    BY <2>2, <2>3
<1>9. QED
  <2>1. CASE Filters(m) \in {{"IN"}, {"OUT"}}
    BY <1>7, <2>1
  <2>2. Filters(m) \in {{}, {"IN"}, {"OUT"}, {"IN", "OUT"}}
    BY DEF Filters
  <2>3. QED
    BY <1>6, <1>8, <2>1, <2>2

\* A call about one descriptor leaves the others' registrations.
LEMMA LooseFresh ==
  ASSUME LooseInv, build = "kqueue", NEW fd \in Fds, NEW m \in Masks[fd], NEW o \in Objects,
         NEW ctl \in {"ADD", "MOD"}, strayed' \in BOOLEAN,
         Call(ctl, fd, [events |-> m, data |-> o], m, o), o \in Unused \/ o = obj[fd]
  PROVE  LooseInv'
<1> USE EventsAssumption
<1> DEFINE res == event_ctl(ctl, fd, [events |-> m, data |-> o])
<1>1. /\ res.ok
      /\ \A f \in Filters(m) : KqueueReg(fd, f, m, o) \in res.reg
      /\ \A r \in res.reg : r \in reg \/ \E f \in Filters(m) : r = KqueueReg(fd, f, m, o)
      /\ \A r \in reg : r.fd # fd => r \in res.reg
  BY KqueueAsks
<1>2. /\ reg' = res.reg
      /\ mask' = [mask EXCEPT ![fd] = m] /\ obj' = [obj EXCEPT ![fd] = o]
      /\ fired' = [fired EXCEPT ![fd] = {}]
      /\ UNCHANGED <<build, ready, batch>>
  BY <1>1 DEF Call
<1> HIDE DEF res
<1>3. m \in SUBSET Flags /\ m # {}
  BY MaskFacts
<1>4. TypeOK'
  BY <1>2, <1>3 DEF TypeOK, LooseInv
<1>5. BookInv'
  BY <1>2, <1>3 DEF BookInv, LooseInv, TypeOK, Unused
<1>6. RegType'
  <2> SUFFICES ASSUME NEW r \in reg'
               PROVE  \E x \in Fds, f \in {"IN", "OUT"}, n \in SUBSET Flags, p \in Objects :
                        r = KqueueReg(x, f, n, p)
    BY DEF RegType
  <2>1. CASE r \in reg
    BY <2>1 DEF RegType, LooseInv
  <2>2. CASE \E f \in Filters(m) : r = KqueueReg(fd, f, m, o)
    BY <1>3, <2>2 DEF Filters
  <2>3. QED
    BY <1>1, <1>2, <2>1, <2>2
<1>7. Held'
  <2> SUFFICES ASSUME NEW x \in Fds, mask'[x] # {}, Gone(x)' = {}, NEW f \in Filters(mask'[x])
               PROVE  KqueueReg(x, f, mask'[x], obj'[x]) \in reg'
    BY DEF Held, Filters
  <2>1. CASE x = fd
    BY <1>1, <1>2, <2>1 DEF TypeOK, LooseInv
  <2>2. CASE x # fd
    <3>1. mask'[x] = mask[x] /\ obj'[x] = obj[x] /\ Gone(x)' = Gone(x)
      BY <1>2, <2>2 DEF Gone, TypeOK, LooseInv
    <3>2. KqueueReg(x, f, mask[x], obj[x]) \in reg
      BY <3>1 DEF Held, LooseInv
    <3>3. KqueueReg(x, f, mask[x], obj[x]).fd # fd
      BY <2>2 DEF KqueueReg
    <3>4. QED
      BY <1>1, <1>2, <3>1, <3>2, <3>3
  <2>3. QED
    BY <2>1, <2>2
<1>8. QED
  BY <1>4, <1>5, <1>6, <1>7 DEF LooseInv

LEMMA LooseDel ==
  ASSUME LooseInv, build = "kqueue", NEW fd \in Fds, Del(fd)
  PROVE  LooseInv'
<1> USE EventsAssumption
<1>0. PICK events \in {mask[fd], mask[fd] \ fired[fd]} :
        /\ Call("DEL", fd, [events |-> events, data |-> obj[fd]], {}, NoObject)
        /\ strayed' = (strayed \/ Filters(events) \cap fired[fd] # {})
  BY DEF Del
<1> DEFINE res == event_ctl("DEL", fd, [events |-> events, data |-> obj[fd]])
<1>1. /\ res.reg \subseteq reg
      /\ \A r \in reg : r.fd # fd => r \in res.reg
      /\ (\A f \in Filters(events) : KqueueReg(fd, f, mask[fd], obj[fd]) \in reg) => res.ok
  BY KqueueDeletes
<1>2. /\ reg' = res.reg
      /\ mask' = IF res.ok THEN [mask EXCEPT ![fd] = {}] ELSE mask
      /\ obj' = IF res.ok THEN [obj EXCEPT ![fd] = NoObject] ELSE obj
      /\ fired' = IF res.ok THEN [fired EXCEPT ![fd] = {}] ELSE fired
      /\ UNCHANGED <<build, ready, batch>>
  BY <1>0 DEF Call
<1> HIDE DEF res
<1>3. strayed' \in BOOLEAN
  BY <1>0
<1>4. mask[fd] # {} /\ Filters(events) \subseteq Filters(mask[fd])
  BY DEF Del, Filters
<1>5. TypeOK'
  <2>1. CASE res.ok
    BY <1>2, <1>3, <2>1 DEF TypeOK, LooseInv
  <2>2. CASE ~res.ok
    BY <1>2, <1>3, <2>2 DEF TypeOK, LooseInv
  <2>3. QED
    BY <2>1, <2>2
<1>6. BookInv'
  <2>1. CASE res.ok
    BY <1>2, <2>1 DEF BookInv, TypeOK, LooseInv
  <2>2. CASE ~res.ok
    BY <1>2, <2>2 DEF BookInv, TypeOK, LooseInv
  <2>3. QED
    BY <2>1, <2>2
<1>7. RegType'
  BY <1>1, <1>2 DEF RegType, LooseInv
<1>8. Held'
  <2> SUFFICES ASSUME NEW x \in Fds, mask'[x] # {}, Gone(x)' = {}, NEW f \in Filters(mask'[x])
               PROVE  KqueueReg(x, f, mask'[x], obj'[x]) \in reg'
    BY DEF Held, Filters
  <2>1. CASE x = fd
    <3>1. ~res.ok
      BY <1>2, <2>1 DEF TypeOK, LooseInv
    <3>2. Gone(fd) = {}
      BY <1>2, <2>1, <3>1 DEF Gone
    <3>3. \A g \in Filters(mask[fd]) : KqueueReg(fd, g, mask[fd], obj[fd]) \in reg
      BY <1>4, <3>2 DEF Held, LooseInv
    <3>4. QED
      BY <1>1, <1>4, <3>1, <3>3
  <2>2. CASE x # fd
    <3>1. mask'[x] = mask[x] /\ obj'[x] = obj[x] /\ fired'[x] = fired[x] /\ batch' = batch
      BY <1>2, <2>2 DEF TypeOK, LooseInv
    <3>2. Gone(x)' = Gone(x)
      BY <3>1 DEF Gone
    <3>3. KqueueReg(x, f, mask[x], obj[x]) \in reg
      BY <3>1, <3>2 DEF Held, LooseInv
    <3>4. KqueueReg(x, f, mask[x], obj[x]).fd # fd
      BY <2>2 DEF KqueueReg
    <3>5. QED
      BY <1>1, <1>2, <3>1, <3>3, <3>4
  <2>3. QED
    BY <2>1, <2>2
<1>9. QED
  BY <1>5, <1>6, <1>7, <1>8 DEF LooseInv

\* A one-shot registration that is lost in a wait is in the batch.
LEMMA LooseWait ==
  ASSUME LooseInv, build = "kqueue", Wait
  PROVE  LooseInv'
<1>1. PICK rs \in SUBSET reg : /\ batch' = kqueue_event_wait(rs)
                               /\ reg' = (reg \ rs) \cup Reported(rs)
  BY DEF Wait, kSubset
<1>2. batch = {} /\ UNCHANGED <<build, ready, mask, obj, fired, strayed>>
  BY DEF Wait
<1>3. batch' = {KqueueEvent(r) : r \in rs}
  BY <1>1 DEF kqueue_event_wait, KqueueEvent
<1>4. \A r \in reg : r \in reg' <=> (r \in rs => "EV_ONESHOT" \notin r.what)
  BY <1>1 DEF Reported
<1>5. reg' \subseteq reg
  BY <1>1 DEF Reported
<1>6. ASSUME NEW r \in rs
      PROVE  /\ KqueueEvent(r) \in Event /\ KqueueEvent(r).data = r.data
             /\ KqueueEvent(r).events # {} /\ KqueueEvent(r).events \subseteq Reports
  <2>1. PICK fd \in Fds, f \in {"IN", "OUT"}, m \in SUBSET Flags, o \in Objects :
          r = KqueueReg(fd, f, m, o)
    BY DEF LooseInv, RegType
  <2>2. r.data = o
    BY <2>1 DEF KqueueReg
  <2> DEFINE ev == KqueueEvent(r)
  <2>3. /\ ev = [events |-> ev.events, data |-> o]
        /\ ev.events \subseteq Reports /\ ev.events \cap {"IN", "OUT"} = {f}
    BY <2>1, KqueueEventOf
  <2> HIDE DEF ev
  <2>4. ev.data = o /\ ev.events # {} /\ ev \in Event
    BY <2>3 DEF Event, Reports, Flags
  <2>5. QED
    BY <2>2, <2>3, <2>4 DEF ev
<1>7. TypeOK'
  BY <1>2, <1>3, <1>6 DEF TypeOK, LooseInv
<1>8. BookInv'
  BY <1>2, <1>3, <1>6 DEF BookInv, LooseInv
<1>9. RegType'
  BY <1>5 DEF RegType, LooseInv
<1>10. Held'
  <2> SUFFICES ASSUME NEW fd \in Fds, mask[fd] # {}, Gone(fd)' = {}, NEW f \in Filters(mask[fd])
               PROVE  KqueueReg(fd, f, mask[fd], obj[fd]) \in reg'
    BY <1>2 DEF Held, Filters
  <2> DEFINE r == KqueueReg(fd, f, mask[fd], obj[fd])
  <2>1. r.data = obj[fd] /\ ("EV_ONESHOT" \in r.what => "ONESHOT" \in mask[fd])
    BY DEF KqueueReg, FilterOf
  <2>2. Gone(fd) = {}
    BY <1>2 DEF Gone
  <2>3. r \in reg
    BY <2>2 DEF Held, LooseInv
  <2> HIDE DEF r
  <2>4. ASSUME r \in rs, "ONESHOT" \in mask[fd] PROVE FALSE
    <3>1. KqueueEvent(r) \in batch' /\ KqueueEvent(r).data = obj'[fd] /\ KqueueEvent(r).events # {}
      BY <1>2, <1>3, <1>6, <2>1, <2>4
    <3>2. KqueueEvent(r).events \subseteq Gone(fd)'
      BY <1>2, <2>4, <3>1 DEF Gone
    <3>3. QED
      BY <3>1, <3>2
  <2>5. r \in reg'
    BY <1>4, <2>1, <2>3, <2>4
  <2>6. QED
    BY <2>5 DEF r
<1>11. QED
  BY <1>7, <1>8, <1>9, <1>10 DEF LooseInv

\* A step that leaves the registrations and what has fired.
LEMMA LooseKept ==
  ASSUME LooseInv, TypeOK', BookInv', \A x \in Fds : Gone(x)' = Gone(x),
         UNCHANGED <<reg, mask, obj>>
  PROVE  LooseInv'
<1>1. RegType'
  BY DEF LooseInv, RegType
<1>2. Held'
  BY DEF LooseInv, Held
<1>3. QED
  BY <1>1, <1>2 DEF LooseInv

LEMMA LooseNext ==
  ASSUME LooseInv, build = "kqueue", Next
  PROVE  LooseInv'
<1> USE EventsAssumption
<1>1. ASSUME NEW fd \in Fds, Add(fd) PROVE LooseInv'
  <2>1. PICK m \in Masks[fd], o \in Unused : Call("ADD", fd, [events |-> m, data |-> o], m, o)
    BY <1>1 DEF Add
  <2>2. o \in Objects /\ strayed' \in BOOLEAN
    BY <1>1 DEF Add, Unused, LooseInv, TypeOK
  <2>3. QED
    BY <2>1, <2>2, LooseFresh
<1>2. ASSUME NEW fd \in Fds, Mod(fd) PROVE LooseInv'
  <2>1. PICK m \in Masks[fd], o \in Unused \cup {obj[fd]} :
          /\ Call("MOD", fd, [events |-> m, data |-> o], m, o)
          /\ strayed' = (strayed \/ ~(Filters(mask[fd]) \subseteq Filters(m)))
    BY <1>2 DEF Mod
  <2>2. o \in Objects
    BY <1>2 DEF Mod, Unused, LooseInv, BookInv
  <2>3. strayed' \in BOOLEAN
    BY <2>1
  <2>4. QED
    BY <2>1, <2>2, <2>3, LooseFresh
<1>3. ASSUME NEW fd \in Fds, Renew(fd) PROVE LooseInv'
  <2>1. /\ mask[fd] # {} /\ strayed' \in BOOLEAN
        /\ Call("MOD", fd, [events |-> mask[fd], data |-> obj[fd]], mask[fd], obj[fd])
    BY <1>3 DEF Renew, LooseInv, BookInv, TypeOK
  <2>2. mask[fd] \in Masks[fd] /\ obj[fd] \in Objects
    BY <2>1 DEF LooseInv, BookInv
  <2>3. QED
    BY <2>1, <2>2, LooseFresh
<1>4. ASSUME NEW fd \in Fds, Arrive(fd) PROVE LooseInv'
  <2>1. UNCHANGED <<build, reg, mask, obj, fired, batch, strayed>>
    BY <1>4 DEF Arrive, client
  <2>2. ready' \in [Fds -> SUBSET {"IN", "OUT", "RDHUP"}]
    BY <1>4 DEF Arrive, LooseInv, TypeOK
  <2>3. TypeOK' /\ BookInv'
    BY <2>1, <2>2 DEF LooseInv, TypeOK, BookInv
  <2>4. \A x \in Fds : Gone(x)' = Gone(x)
    BY <2>1 DEF Gone
  <2>5. QED
    BY <2>1, <2>3, <2>4, LooseKept
<1>5. ASSUME NEW ev \in batch, Discard(ev) PROVE LooseInv'
  <2>1. /\ \A fd \in Fds : ev.data # obj[fd]
        /\ batch' = batch \ {ev} /\ UNCHANGED <<build, reg, ready, mask, obj, fired, strayed>>
    BY <1>5 DEF Discard
  <2>2. TypeOK' /\ BookInv'
    BY <2>1 DEF LooseInv, TypeOK, BookInv
  <2>3. ASSUME NEW x \in Fds PROVE Gone(x)' = Gone(x)
    <3>1. {y \in batch' : y.data = obj[x]} = {y \in batch : y.data = obj[x]}
      BY <2>1
    <3>2. QED
      BY <2>1, <3>1 DEF Gone
  <2>4. QED
    BY <2>1, <2>2, <2>3, LooseKept
<1>6. ASSUME NEW fd \in Fds, NEW ev \in batch, Handle(fd, ev) PROVE LooseInv'
  BY <1>6, HandleBooks, LooseKept DEF LooseInv
<1>7. QED
  BY <1>1, <1>2, <1>3, <1>4, <1>5, <1>6, LooseWait, LooseDel DEF Next

--------------------------------------------------------------------------------

LEMMA BuildIsFixed ==
  ASSUME Next
  PROVE  build' = build /\ (Tidy' => Tidy)
<1>1. build' = build
  BY DEF Next, Wait, Add, Mod, Del, Renew, Arrive, Handle, Discard, Call
<1>2. ~strayed' => ~strayed
  <2>1. ASSUME NEW fd \in Fds, Mod(fd) PROVE ~strayed' => ~strayed
    BY <2>1 DEF Mod
  <2>2. ASSUME NEW fd \in Fds, Del(fd) PROVE ~strayed' => ~strayed
    BY <2>2 DEF Del
  <2>3. ASSUME NEW fd \in Fds, Add(fd) \/ Renew(fd) \/ Arrive(fd) PROVE ~strayed' => ~strayed
    BY <2>3 DEF Add, Renew, Arrive, client
  <2>4. ASSUME NEW ev, NEW fd, Wait \/ Handle(fd, ev) \/ Discard(ev) PROVE ~strayed' => ~strayed
    BY <2>4 DEF Wait, Handle, Discard
  <2>5. QED
    BY <2>1, <2>2, <2>3, <2>4 DEF Next
<1>3. QED
  BY <1>1, <1>2 DEF Tidy

LEMMA EventsNext == EventsInv /\ [Next]_vars => EventsInv'
<1>1. ASSUME EventsInv, Next PROVE EventsInv'
  <2>1. build' = build /\ (Tidy' => Tidy)
    BY <1>1, BuildIsFixed
  <2>2. Tidy' => TidyInv'
    BY <1>1, <2>1, TidyNext DEF EventsInv
  <2>3. build' = "kqueue" => LooseInv'
    BY <1>1, <2>1, LooseNext DEF EventsInv
  <2>4. QED
    BY <1>1, <2>1, <2>2, <2>3 DEF EventsInv
<1>2. ASSUME EventsInv, UNCHANGED vars PROVE EventsInv'
  <2>1. UNCHANGED <<build, reg, ready, mask, obj, fired, batch, strayed>>
    BY <1>2 DEF vars
  <2>2. Tidy' = Tidy
    BY <2>1 DEF Tidy
  <2>3. TidyInv => TidyInv'
    <3>1. ASSUME TidyInv PROVE TidyInv'
      <4>1. ready' \in [Fds -> SUBSET {"IN", "OUT", "RDHUP"}]
        BY <2>1, <3>1 DEF TidyInv, TypeOK
      <4>2. QED
        BY <2>1, <3>1, <4>1, IdleStep
    <3>2. QED
      BY <3>1
  <2>4. LooseInv => LooseInv'
    <3>1. ASSUME LooseInv PROVE LooseInv'
      <4>1. TypeOK' /\ BookInv'
        BY <2>1, <3>1 DEF LooseInv, TypeOK, BookInv
      <4>2. \A x \in Fds : Gone(x)' = Gone(x)
        BY <2>1 DEF Gone
      <4>3. QED
        BY <2>1, <3>1, <4>1, <4>2, LooseKept
    <3>2. QED
      BY <3>1
  <2>5. QED
    BY <1>2, <2>1, <2>2, <2>3, <2>4 DEF EventsInv
<1>3. QED
  BY <1>1, <1>2

LEMMA EventsInit == Init => EventsInv
<1> SUFFICES ASSUME Init PROVE EventsInv
  OBVIOUS
<1>1. TypeOK /\ BookInv /\ BatchOwned
  BY EventsAssumption DEF Init, TypeOK, BookInv, BatchOwned
<1>2. RegInv
  BY DEF Init, RegInv, Own
<1>3. RegType /\ Held
  BY DEF Init, RegType, Held
<1>4. QED
  BY <1>1, <1>2, <1>3 DEF EventsInv, TidyInv, LooseInv, TypeOK

--------------------------------------------------------------------------------

\* The books of the client and the events of a batch keep their types.
THEOREM EventsTypeCorrect == Spec => []TypeOK
<1>1. EventsInv => TypeOK
  BY DEF EventsInv, Tidy, TidyInv, LooseInv
<1>2. QED
  BY <1>1, EventsInit, EventsNext, PTL DEF Spec

\* No registration outlives its object or asks for what is no longer wanted: with
\* epoll for any client, with kqueue for one that never narrowed a mask with MOD
\* nor named a filter that has fired in a deletion.
THEOREM EventsNoStaleInterest == Spec => []NoStaleInterest
<1>1. EventsInv => NoStaleInterest
  <2> SUFFICES ASSUME TidyInv, NEW r \in reg
               PROVE  mask[r.fd] # {} /\ r.data = obj[r.fd] /\ Filters(Asks(r)) \subseteq mask[r.fd]
    BY DEF NoStaleInterest, EventsInv, Tidy
  <2>1. /\ mask[r.fd] # {} /\ r.data = obj[r.fd] /\ r \in Own(r.fd)
        /\ mask[r.fd] \in SUBSET Flags
    BY Owned
  <2>2. CASE build = "epoll"
    <3>1. r.what = {EpollFlag[f] : f \in mask[r.fd]} \/ r.what = {"EPOLLONESHOT"}
      BY <2>1, <2>2 DEF Own, EpollReg, Disabled
    <3>2. CASE r.what = {EpollFlag[f] : f \in mask[r.fd]}
      <4>1. {f \in Flags : EpollFlag[f] \in r.what} = mask[r.fd]
        BY <2>1, <3>2, Names
      <4>2. "EVFILT_READ" \notin r.what /\ "EVFILT_WRITE" \notin r.what
        BY <2>1, <3>2, Names
      <4>3. QED
        BY <2>1, <4>1, <4>2 DEF Asks, Filters
    <3>3. CASE r.what = {"EPOLLONESHOT"}
      <4>1. Filters(Asks(r)) = {}
        BY <3>3, Names DEF Asks, Filters
      <4>2. QED
        BY <2>1, <4>1
    <3>4. QED
      BY <3>1, <3>2, <3>3
  <2>3. CASE build # "epoll"
    <3>1. PICK f \in Filters(mask[r.fd]) : r = KqueueReg(r.fd, f, mask[r.fd], obj[r.fd])
      BY <2>1, <2>3 DEF Own
    <3>2. f \in {"IN", "OUT"} /\ f \in mask[r.fd]
      BY DEF Filters
    <3>3. r.what = {FilterOf(f)} \cup (IF "ONESHOT" \in mask[r.fd] THEN {"EV_ONESHOT"} ELSE {})
      BY <3>1 DEF KqueueReg
    <3>4. {g \in Flags : EpollFlag[g] \in r.what} = {}
      BY <3>2, <3>3, Names DEF FilterOf
    <3>5. Asks(r) = {f}
      BY <3>2, <3>3, <3>4 DEF Asks, FilterOf
    <3>6. QED
      BY <2>1, <3>2, <3>5 DEF Filters
  <2>4. QED
    BY <2>2, <2>3
<1>2. QED
  BY <1>1, EventsInit, EventsNext, PTL DEF Spec

\* The kernel holds all that the client has asked for and not been told of, in
\* both builds and for clients that stray too.
THEOREM EventsInterestHeld == Spec => []InterestHeld
<1>1. EventsInv => InterestHeld
  <2> SUFFICES ASSUME EventsInv, NEW fd \in Fds, Armed(fd), NEW f \in Filters(mask[fd])
               PROVE  \E r \in reg : r.fd = fd /\ r.data = obj[fd] /\ f \in Asks(r)
    BY DEF InterestHeld
  <2>1. mask[fd] # {} /\ Gone(fd) = {}
    BY DEF Armed, Gone, InBatch
  <2>2. f \in {"IN", "OUT"} /\ f \in mask[fd] /\ f \in Flags
    BY DEF Filters, Flags
  <2>3. CASE build = "epoll"
    <3> DEFINE r == EpollReg(fd, mask[fd], obj[fd])
    <3>0. Own(fd) \subseteq reg
      BY <2>3 DEF EventsInv, Tidy, TidyInv, RegInv
    <3>1. r \in reg
      BY <2>1, <2>3, <3>0 DEF Own
    <3>2. r.fd = fd /\ r.data = obj[fd] /\ EpollFlag[f] \in r.what
      BY <2>2 DEF EpollReg
    <3>3. f \in Asks(r)
      BY <2>2, <3>2 DEF Asks
    <3>4. QED
      BY <3>1, <3>2, <3>3
  <2>4. CASE build = "kqueue"
    <3> DEFINE r == KqueueReg(fd, f, mask[fd], obj[fd])
    <3>1. r \in reg
      BY <2>1, <2>4 DEF EventsInv, LooseInv, Held
    <3>2. r.fd = fd /\ r.data = obj[fd] /\ FilterOf(f) \in r.what
      BY DEF KqueueReg
    <3>3. f \in Asks(r)
      BY <2>2, <3>2 DEF Asks, FilterOf
    <3>4. QED
      BY <3>1, <3>2, <3>3
  <2>5. QED
    BY <2>3, <2>4 DEF EventsInv
<1>2. QED
  BY <1>1, EventsInit, EventsNext, PTL DEF Spec

\* One event_ctl takes back all that was asked for: with epoll the deletion of
\* the whole mask, at any time; with kqueue, for a client that has not strayed, the
\* deletion of what has not fired, between batches.
THEOREM EventsRevocable == Spec => []Revocable
<1>1. ASSUME TidyInv, NEW fd \in Fds, NEW m, mask[fd] # {},
             build = "epoll" \/ (~InBatch(fd) /\ m = mask[fd] \ fired[fd])
      PROVE  Revokes(fd, m)
  <2>1. LET res == event_ctl("DEL", fd, [events |-> m, data |-> obj[fd]])
        IN  res.ok /\ res.reg = reg \ Own(fd)
    BY <1>1, CtlDelete
  <2>2. \A r \in reg \ Own(fd) : r.fd # fd
    BY <1>1, OwnIsAll DEF TidyInv
  <2>3. QED
    BY <2>1, <2>2 DEF Revokes
<1>2. EventsInv => Revocable
  BY <1>1 DEF EventsInv, Tidy, Revocable
<1>3. QED
  BY <1>2, EventsInit, EventsNext, PTL DEF Spec
===============================================================================
