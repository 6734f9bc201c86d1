--------------------------- MODULE EventLoopProofs ---------------------------
(***************************************************************************)
(* Proofs, for any number of fds and coroutines and any size of a batch:   *)
(* while each connection is used in one direction at a time and none is    *)
(* reset, the events of a batch stay valid whatever coroutines do in       *)
(* between, a waiting coroutine will be found, and only a coroutine whose  *)
(* fd is ready is resumed.                                                 *)
(***************************************************************************)
EXTENDS EventLoop, TLAPS

\* What the client and the environment are taken not to do.
Mild == ~FullDuplex /\ ~Errors

\* The owner of fd waits for it.
OwnerWaits(fd) ==
    owner[fd] \in Coros /\ pc[owner[fd]] = "wait" /\ at[owner[fd]].fd = fd

\* The events reported for fd are those its owner waits for, and still there.
Valid(fd, events) ==
    OwnerWaits(fd) /\ events = {epoll[fd]} /\ epoll[fd] \in ready[fd]

\* One coroutine executes at a time, and none while poll() is between events.
ThreadInv ==
    /\ \A c \in Coros : pc[c] \in {"run", "resumed"} <=> top = c
    /\ phase \in {"dispatch", "readable", "writable", "stopped"} => top = Loop

\* Registrations belong to waiting owners.
RegistrationInv ==
    /\ \A fd \in Fds : epoll[fd] # "none" => OwnerWaits(fd)
    /\ \A c \in Coros : pc[c] \in {"wait", "resumed"} =>
          at[c].fd \in Fds /\ at[c].events \in {{"in"}, {"out"}}
    /\ \A c \in Coros : pc[c] \in {"wait", "resumed"} => owner[at[c].fd] = c
    /\ \A fd \in Fds : ready[fd] \subseteq Directions

\* The events of the batch, and the one being handled, are valid.
BatchInv ==
    /\ phase = "dispatch" =>
          \A fd \in DOMAIN batch : Valid(fd, batch[fd])
    /\ phase \notin {"poll", "dispatch", "stopped"} =>
          /\ cur.fd \in Fds
          /\ cur.fd \notin DOMAIN batch
          /\ cur.events \subseteq Directions
          /\ \A fd \in DOMAIN batch : Valid(fd, batch[fd])
    /\ phase = "readable" => Valid(cur.fd, cur.events)
    /\ phase = "readable done" => "out" \notin cur.events
    /\ phase = "writable" /\ "out" \in cur.events => Valid(cur.fd, cur.events)

\* A channel outlives its owner's reference only while poll() handles it.
DroppedInv ==
    \A fd \in Fds : channel[fd] = "dropped" => epoll[fd] = "none"

Parts == ThreadInv /\ RegistrationInv /\ BatchInv /\ DroppedInv
Claims == AssertionHolds /\ WaiterIsRegistered /\ NoSpuriousResume
Inv == TypeOK /\ Parts /\ Claims

-----------------------------------------------------------------------------
LEMMA InitInv == Init => Inv
<1> SUFFICES ASSUME Init
             PROVE  Inv
  OBVIOUS
<1>1. TypeOK
  BY DEF Init, TypeOK, NoFd, Phases, Directions, Conditions
<1>2. Parts
  BY ConstantsAssumption DEF Init, Parts, ThreadInv, RegistrationInv, BatchInv,
     DroppedInv
<1>3. Claims
  BY DEF Init, Claims, AssertionHolds, WaiterIsRegistered, NoSpuriousResume,
     ResumedWhenReady
<1> QED
  BY <1>1, <1>2, <1>3 DEF Inv

\* A coroutine that executes has no fd registered and no event in the batch.
LEMMA RunnerIsFree ==
  ASSUME Inv, NEW c \in Coros, top = c, NEW fd \in Fds, owner[fd] = c
  PROVE  ~OwnerWaits(fd) /\ epoll[fd] = "none"
BY DEF Inv, Parts, ThreadInv, RegistrationInv, OwnerWaits

\* What happens to an fd no coroutine waits for does not disturb the others.
LEMMA WaitersUndisturbed ==
  ASSUME WaiterIsRegistered, NEW fd,
         \A c \in Coros : pc'[c] = "wait" =>
             pc[c] = "wait" /\ at'[c] = at[c] /\ at[c].fd \in Fds \ {fd},
         \A g \in Fds \ {fd} :
             /\ channel'[g] = channel[g] /\ epoll'[g] = epoll[g]
             /\ g \in channels => g \in channels'
             /\ readable_callback'[g] = readable_callback[g]
             /\ writable_callback'[g] = writable_callback[g]
  PROVE  WaiterIsRegistered'
<1> SUFFICES ASSUME NEW c \in Coros, pc'[c] = "wait"
             PROVE  LET g == at'[c].fd IN
                    /\ channel'[g] = "open"
                    /\ g \in channels'
                    /\ at'[c].events = {epoll'[g]}
                    /\ c = IF epoll'[g] = "in" THEN readable_callback'[g]
                                               ELSE writable_callback'[g]
  BY DEF WaiterIsRegistered
<1> DEFINE g == at[c].fd
<1>1. pc[c] = "wait" /\ at'[c] = at[c] /\ g \in Fds \ {fd}
  OBVIOUS
<1>2. /\ channel[g] = "open" /\ g \in channels /\ at[c].events = {epoll[g]}
      /\ c = IF epoll[g] = "in" THEN readable_callback[g] ELSE writable_callback[g]
  BY <1>1 DEF WaiterIsRegistered
<1> QED
  BY <1>1, <1>2

LEMMA StartStep ==
  ASSUME Inv, NEW c \in Coros, start(c) \/ finish(c)
  PROVE  Inv'
<1> USE ConstantsAssumption DEF Inv, Parts, Claims, TypeOK, start, finish, Runs, fdVars,
        ioVars, pollVars
<1>1. TypeOK'
  OBVIOUS
<1>2. \A d \in Coros : pc[d] \in {"wait", "resumed"} <=> pc'[d] \in {"wait", "resumed"}
  BY DEF ThreadInv
<1>3. \A d \in Coros : pc[d] = "wait" <=> pc'[d] = "wait"
  BY DEF ThreadInv
<1>4. ThreadInv'
  BY DEF ThreadInv
<1>5. \A fd \in Fds : OwnerWaits(fd)' = OwnerWaits(fd)
  BY <1>3 DEF OwnerWaits
<1>6. RegistrationInv'
  BY <1>2, <1>3, <1>5 DEF RegistrationInv
<1>7. BatchInv' /\ DroppedInv'
  BY <1>5 DEF BatchInv, DroppedInv, Valid
<1>8. AssertionHolds' /\ WaiterIsRegistered'
  <2>1. \A d \in Coros : pc'[d] = "wait" => at[d].fd \in Fds \ {nullptr}
    BY <1>3 DEF RegistrationInv
  <2>2. UNCHANGED <<at, channel, channels, epoll, readable_callback, writable_callback>>
    OBVIOUS
  <2> QED
    BY <1>3, <2>1, <2>2, WaitersUndisturbed DEF AssertionHolds
<1>9. NoSpuriousResume'
  <2>1. \A d \in Coros : pc[d] # "wild" => pc'[d] # "wild"
    OBVIOUS
  <2> QED
    BY <1>2, <1>3, <2>1 DEF NoSpuriousResume, ResumedWhenReady
<1> QED
  BY <1>1, <1>4, <1>6, <1>7, <1>8, <1>9

LEMMA OpenStep ==
  ASSUME Inv, NEW c \in Coros, NEW fd \in Fds, open(c, fd)
  PROVE  Inv'
<1> USE ConstantsAssumption DEF Inv, Parts, Claims, TypeOK, open, Runs, coroVars, ioVars,
        pollVars
<1>1. TypeOK'
  OBVIOUS
<1>2. ~OwnerWaits(fd) /\ \A b \in Coros : pc[b] = "wait" => at[b].fd # fd
  BY DEF WaiterIsRegistered, OwnerWaits
<1>3. ~OwnerWaits(fd)'
  BY DEF OwnerWaits
<1>4. \A g \in Fds : OwnerWaits(g)' = OwnerWaits(g)
  BY <1>2, <1>3 DEF OwnerWaits
<1>5. ThreadInv'
  BY DEF ThreadInv
<1>6. RegistrationInv'
  <2>1. \A b \in Coros : pc[b] \in {"wait", "resumed"} => pc[b] = "wait" /\ at[b].fd # fd
    BY <1>2 DEF ThreadInv
  <2> QED
    BY <1>2, <1>4, <2>1 DEF RegistrationInv
<1>7. BatchInv' /\ DroppedInv'
  BY <1>2, <1>4 DEF BatchInv, DroppedInv, Valid, ThreadInv
<1>8. AssertionHolds' /\ WaiterIsRegistered'
  <2>1. \A b \in Coros : pc[b] = "wait" => at[b].fd \in Fds \ {fd}
    BY <1>2 DEF RegistrationInv
  <2>2. \A g \in Fds \ {fd} : channel'[g] = channel[g]
    OBVIOUS
  <2>3. UNCHANGED <<pc, at, channels, epoll, readable_callback, writable_callback, phase>>
    OBVIOUS
  <2> QED
    BY <2>1, <2>2, <2>3, WaitersUndisturbed DEF AssertionHolds
<1>9. NoSpuriousResume'
  <2>1. \A b \in Coros : pc[b] # "resumed"
    BY DEF ThreadInv
  <2> QED
    BY <2>1 DEF NoSpuriousResume, ResumedWhenReady
<1> QED
  BY <1>1, <1>5, <1>6, <1>7, <1>8, <1>9

LEMMA DropStep ==
  ASSUME Inv, NEW c \in Coros, NEW fd \in Fds, drop(c, fd)
  PROVE  Inv'
<1> USE ConstantsAssumption DEF Inv, Parts, Claims, TypeOK, drop, Runs, coroVars, ioVars,
        pollVars, destroy_channel, deregister, epoll_ctl_del
<1>1. TypeOK'
  <2>1. UNCHANGED <<ready, pc, at, top, phase, batch, cur, closing>>
    OBVIOUS
  <2>2. /\ channel' \in {[channel EXCEPT ![fd] = "dropped"], [channel EXCEPT ![fd] = "closed"]}
        /\ owner' \in {owner, [owner EXCEPT ![fd] = nullptr]}
        /\ readable_callback' \in {readable_callback, [readable_callback EXCEPT ![fd] = nullptr]}
        /\ writable_callback' \in {writable_callback, [writable_callback EXCEPT ![fd] = nullptr]}
        /\ epoll' \in {epoll, [epoll EXCEPT ![fd] = "none"]}
        /\ channels' \in {channels, channels \ {fd}}
    OBVIOUS
  <2>3. channel' \in [Fds -> {"closed", "open", "dropped"}]
    BY <2>2
  <2>4. /\ owner' \in [Fds -> Coros \cup {nullptr}]
        /\ readable_callback' \in [Fds -> Coros \cup {nullptr}]
        /\ writable_callback' \in [Fds -> Coros \cup {nullptr}]
    BY <2>2
  <2>5. epoll' \in [Fds -> Directions \cup {"none"}] /\ channels' \subseteq Fds
    BY <2>2
  <2> QED
    BY <2>1, <2>3, <2>4, <2>5
<1>2. ~OwnerWaits(fd) /\ epoll[fd] = "none" /\ \A b \in Coros : pc[b] = "wait" => at[b].fd # fd
  BY RunnerIsFree DEF InUse
<1>3. ~OwnerWaits(fd)'
  BY DEF OwnerWaits
<1>4. \A g \in Fds : OwnerWaits(g)' = OwnerWaits(g)
  BY <1>2, <1>3 DEF OwnerWaits
<1>5. ThreadInv'
  BY DEF ThreadInv
<1>6. RegistrationInv'
  <2>1. \A b \in Coros : pc[b] \in {"wait", "resumed"} => pc[b] = "wait" /\ at[b].fd # fd
    BY <1>2 DEF ThreadInv
  <2> QED
    BY <1>2, <1>4, <2>1 DEF RegistrationInv
<1>7. BatchInv' /\ DroppedInv'
  <2>0. ready' = ready /\ \A g \in Fds : epoll'[g] = epoll[g]
    BY <1>2
  <2>1. \A g \in Fds : \A E : Valid(g, E)' <=> Valid(g, E)
    <3> HIDE DEF Inv, TypeOK, drop, destroy_channel, deregister, epoll_ctl_del
    <3> QED
      BY <1>4, <2>0 DEF Valid
  <2>2. phase' = phase /\ cur' = cur /\ batch' = batch
    OBVIOUS
  <2>3. BatchInv'
    BY <2>1, <2>2 DEF BatchInv
  <2>4. DroppedInv'
    BY <1>2 DEF DroppedInv
  <2> QED
    BY <2>3, <2>4
<1>8. WaiterIsRegistered'
  <2>1. \A g \in Fds \ {fd} :
          /\ g \in channels => g \in channels'
          /\ channel'[g] = channel[g] /\ epoll'[g] = epoll[g]
          /\ readable_callback'[g] = readable_callback[g]
          /\ writable_callback'[g] = writable_callback[g]
    OBVIOUS
  <2>2. \A b \in Coros : pc'[b] = "wait" =>
          pc[b] = "wait" /\ at'[b] = at[b] /\ at[b].fd \in Fds \ {fd}
    BY <1>2 DEF RegistrationInv
  <2>3. WaiterIsRegistered
    OBVIOUS
  <2> HIDE DEF Inv, Parts, Claims, TypeOK, drop, Runs, coroVars, ioVars, pollVars,
           destroy_channel, deregister, epoll_ctl_del
  <2> QED
    BY <2>1, <2>2, <2>3, WaitersUndisturbed
<1>9. AssertionHolds' /\ NoSpuriousResume'
  BY DEF AssertionHolds, NoSpuriousResume, ResumedWhenReady
<1> QED
  BY <1>1, <1>5, <1>6, <1>7, <1>8, <1>9

LEMMA IoNowStep ==
  ASSUME Mild, Inv, NEW c \in Coros, NEW fd \in Fds, NEW d \in Directions, io_now(c, fd, d)
  PROVE  Inv'
<1> USE ConstantsAssumption DEF Inv, Parts, Claims, TypeOK, io_now, Runs, fdVars, coroVars,
        ioVars, pollVars
<1>1. PICK left \in SUBSET ready[fd] : ready' = [ready EXCEPT ![fd] = left]
  BY DEF do_io
<1>2. ~OwnerWaits(fd) /\ epoll[fd] = "none"
  BY RunnerIsFree DEF MayUse, Mild
<1>3. TypeOK'
  BY <1>1
<1>4. \A g \in Fds : OwnerWaits(g)' = OwnerWaits(g)
  BY DEF OwnerWaits
<1>5. ThreadInv' /\ DroppedInv'
  BY DEF ThreadInv, DroppedInv
<1>6. RegistrationInv'
  BY <1>1, <1>4 DEF RegistrationInv
<1>7. BatchInv'
  BY <1>1, <1>2, <1>4 DEF BatchInv, Valid, ThreadInv
<1>8. Claims'
  BY DEF AssertionHolds, WaiterIsRegistered, NoSpuriousResume, ResumedWhenReady, ThreadInv
<1> QED
  BY <1>3, <1>5, <1>6, <1>7, <1>8

LEMMA SuspendStep ==
  ASSUME Mild, Inv, NEW c \in Coros, NEW fd \in Fds, NEW d \in Directions,
         await_suspend(c, fd, d)
  PROVE  Inv'
<1> USE ConstantsAssumption DEF Inv, Parts, Claims, TypeOK, await_suspend, Runs, fdVars,
        coroVars, pollVars, Directions
<1>1. /\ ~OwnerWaits(fd) /\ epoll[fd] = "none"
      /\ owner[fd] = c /\ channel[fd] = "open"
  BY RunnerIsFree DEF MayUse, Mild
<1>2. /\ channels' = channels \cup {fd}
      /\ epoll' = [epoll EXCEPT ![fd] = d]
      /\ pc' = [pc EXCEPT ![c] = "wait"]
      /\ at' = [at EXCEPT ![c] = [fd |-> fd, events |-> {d}]]
      /\ top' = Loop
  BY <1>1 DEF register_channel, Interest
<1>3. /\ d = "in" => /\ readable_callback' = [readable_callback EXCEPT ![fd] = c]
                     /\ writable_callback' = writable_callback
      /\ d # "in" => /\ writable_callback' = [writable_callback EXCEPT ![fd] = c]
                     /\ readable_callback' = readable_callback
  BY DEF set_callback
<1>4. TypeOK'
  <2>1. [fd |-> fd, events |-> {d}] \in [fd : Fds \cup {nullptr}, events : SUBSET Directions]
    OBVIOUS
  <2>2. at' \in [Coros -> [fd : Fds \cup {nullptr}, events : SUBSET Directions]]
    BY <1>2, <2>1
  <2>3. /\ readable_callback' \in [Fds -> Coros \cup {nullptr}]
        /\ writable_callback' \in [Fds -> Coros \cup {nullptr}]
    BY <1>3
  <2>4. /\ epoll' \in [Fds -> Directions \cup {"none"}]
        /\ channels' \subseteq Fds
        /\ pc' \in [Coros -> {"none", "run", "wait", "resumed", "wild"}]
        /\ top' \in Coros \cup {Loop}
    BY <1>2
  <2>5. UNCHANGED <<channel, owner, ready, phase, batch, cur, closing>>
    OBVIOUS
  <2> QED
    BY <2>2, <2>3, <2>4, <2>5
<1>5. \A g \in Fds : OwnerWaits(g)' = (OwnerWaits(g) \/ g = fd)
  BY <1>1, <1>2 DEF OwnerWaits
<1>6. ThreadInv' /\ DroppedInv'
  BY <1>1, <1>2 DEF ThreadInv, DroppedInv
<1>7. RegistrationInv'
  BY <1>1, <1>2, <1>5 DEF RegistrationInv
<1>8. BatchInv'
  <2>1. \A g \in Fds : \A E : Valid(g, E) => Valid(g, E)'
    BY <1>1, <1>2, <1>5 DEF Valid
  <2>2. phase \notin {"dispatch", "readable", "writable", "stopped"}
    BY DEF ThreadInv
  <2> QED
    BY <2>1, <2>2 DEF BatchInv
<1>9. WaiterIsRegistered'
  BY <1>1, <1>2, <1>3 DEF WaiterIsRegistered, RegistrationInv
<1>10. AssertionHolds' /\ NoSpuriousResume'
  BY <1>2 DEF AssertionHolds, NoSpuriousResume, ResumedWhenReady, ThreadInv
<1> QED
  BY <1>4, <1>6, <1>7, <1>8, <1>9, <1>10

LEMMA AwaitResumeStep ==
  ASSUME Inv, NEW c \in Coros, await_resume(c)
  PROVE  Inv'
<1> USE ConstantsAssumption DEF Inv, Parts, Claims, TypeOK, await_resume, fdVars,
        ioVars, pollVars
<1>1. PICK fd \in Fds : at[c].fd = fd /\ owner[fd] = c
  BY DEF RegistrationInv
<1>2. PICK left \in SUBSET ready[fd] : ready' = [ready EXCEPT ![fd] = left]
  <2>1. ready' = ready \/ \E left \in SUBSET ready[fd] : ready' = [ready EXCEPT ![fd] = left]
    BY <1>1 DEF do_io
  <2>2. ready = [ready EXCEPT ![fd] = ready[fd]]
    OBVIOUS
  <2> QED
    BY <2>1, <2>2
<1>3. ~OwnerWaits(fd) /\ epoll[fd] = "none"
  BY <1>1, RunnerIsFree
<1>4. TypeOK'
  BY <1>2 DEF NoFd
<1>5. \A g \in Fds : OwnerWaits(g)' = OwnerWaits(g)
  BY DEF OwnerWaits
<1>6. ThreadInv' /\ DroppedInv'
  BY DEF ThreadInv, DroppedInv
<1>7. RegistrationInv'
  BY <1>2, <1>5 DEF RegistrationInv
<1>8. BatchInv'
  <2>1. \A g \in Fds : \A E : Valid(g, E) => Valid(g, E)'
    BY <1>2, <1>3, <1>5 DEF Valid
  <2>2. phase \notin {"dispatch", "readable", "writable", "stopped"}
    BY DEF ThreadInv
  <2> QED
    BY <2>1, <2>2 DEF BatchInv
<1>9. AssertionHolds' /\ WaiterIsRegistered'
  BY DEF AssertionHolds, WaiterIsRegistered
<1>10. NoSpuriousResume'
  BY DEF NoSpuriousResume, ResumedWhenReady, ThreadInv
<1> QED
  BY <1>4, <1>6, <1>7, <1>8, <1>9, <1>10

LEMMA ArriveStep ==
  ASSUME Mild, Inv, NEW fd \in Fds, NEW new \in Arrivals, arrive(fd, new)
  PROVE  Inv'
<1> USE ConstantsAssumption DEF Inv, Parts, Claims, TypeOK, arrive, fdVars, ioVars, coroVars,
        pollVars
<1>1. new \subseteq Directions
  BY DEF Arrivals, Mild, Directions
<1>2. \A g \in Fds : ready[g] \subseteq ready'[g]
  OBVIOUS
<1>3. TypeOK'
  BY <1>1 DEF Conditions
<1>4. \A g \in Fds : OwnerWaits(g)' = OwnerWaits(g)
  BY DEF OwnerWaits
<1>5. ThreadInv' /\ DroppedInv'
  BY DEF ThreadInv, DroppedInv
<1>6. RegistrationInv'
  BY <1>1, <1>4 DEF RegistrationInv
<1>7. BatchInv'
  <2>1. \A g \in Fds : \A E : Valid(g, E) => Valid(g, E)'
    BY <1>2, <1>4 DEF Valid
  <2> QED
    BY <2>1 DEF BatchInv
<1>8. AssertionHolds' /\ WaiterIsRegistered'
  BY DEF AssertionHolds, WaiterIsRegistered
<1>9. NoSpuriousResume'
  <2>1. \A c \in Coros : pc[c] = "resumed" => at[c].fd \in Fds
    BY DEF RegistrationInv
  <2>2. \A c \in Coros : pc[c] = "resumed" => at[c].events \subseteq ready'[at[c].fd]
    BY <1>2, <2>1 DEF NoSpuriousResume, ResumedWhenReady
  <2> QED
    BY <2>2 DEF NoSpuriousResume, ResumedWhenReady
<1> QED
  BY <1>3, <1>5, <1>6, <1>7, <1>8, <1>9

-----------------------------------------------------------------------------
(* poll() *)

LEMMA BatchStep ==
  ASSUME Inv, epoll_wait \/ \E fd \in Fds : dispatch(fd)
  PROVE  Inv'
<1> USE ConstantsAssumption DEF Inv, Parts, Claims, TypeOK, fdVars, ioVars, coroVars
<1>1. \A g \in Fds : OwnerWaits(g)' = OwnerWaits(g)
  BY DEF epoll_wait, dispatch, OwnerWaits
<1>2. \A g \in Fds : \A E : Valid(g, E)' = Valid(g, E)
  BY <1>1 DEF Valid, epoll_wait, dispatch
<1>3. DroppedInv' /\ RegistrationInv' /\ WaiterIsRegistered' /\ NoSpuriousResume'
  <2>1. UNCHANGED <<fdVars, ioVars, ready, coroVars>>
    BY DEF epoll_wait, dispatch
  <2> QED
    BY <1>1, <2>1 DEF DroppedInv, RegistrationInv, NoSpuriousResume, ResumedWhenReady,
       WaiterIsRegistered
<1>4. CASE epoll_wait
  <2>1. PICK B \in SUBSET Pending : batch' = [fd \in B |-> Reported(fd)]
    BY <1>4 DEF epoll_wait
  <2>2. \A fd \in B : Valid(fd, Reported(fd))
    BY <2>1 DEF Pending, Reported, Valid, RegistrationInv, Directions
  <2>3. phase' = "dispatch" /\ phase = "poll" /\ top = Loop /\ UNCHANGED <<cur, closing>>
    BY <1>4 DEF epoll_wait
  <2>4. TypeOK'
    BY <1>4, <2>1, <2>3 DEF epoll_wait, Pending, Reported, Phases
  <2>5. ThreadInv' /\ AssertionHolds'
    BY <1>4, <2>3 DEF ThreadInv, epoll_wait, AssertionHolds
  <2>6. BatchInv'
    BY <1>2, <2>1, <2>2, <2>3 DEF BatchInv, Pending
  <2> QED
    BY <1>3, <2>4, <2>5, <2>6
<1>5. ASSUME NEW fd \in Fds, dispatch(fd)
      PROVE  Inv'
  <2>1. fd \in DOMAIN batch /\ phase = "dispatch" /\ Valid(fd, batch[fd])
    BY <1>5 DEF dispatch, BatchInv
  <2>2. fd \in channels /\ batch[fd] \subseteq Directions
    BY <2>1 DEF Valid, OwnerWaits, WaiterIsRegistered, RegistrationInv
  <2>3. /\ phase' = "readable"
        /\ cur' = [fd |-> fd, events |-> batch[fd]]
        /\ batch' = [g \in DOMAIN batch \ {fd} |-> batch[g]]
        /\ UNCHANGED <<fdVars, ioVars, ready, coroVars, closing>>
    BY <1>5, <2>2 DEF dispatch
  <2>4. TypeOK'
    <3>1. cur' \in [fd : Fds \cup {nullptr}, events : SUBSET Conditions]
      BY <2>2, <2>3 DEF Conditions
    <3>2. DOMAIN batch' \subseteq Fds /\ \A g \in DOMAIN batch' : batch'[g] \subseteq Conditions
      BY <2>3
    <3>3. phase' \in Phases
      BY <2>3 DEF Phases
    <3> QED
      BY <2>3, <3>1, <3>2, <3>3
  <2>5. ThreadInv' /\ AssertionHolds'
    BY <2>1, <2>3 DEF ThreadInv, AssertionHolds
  <2>6. BatchInv'
    BY <1>2, <2>1, <2>2, <2>3 DEF BatchInv
  <2> QED
    BY <1>3, <2>4, <2>5, <2>6
<1> QED
  BY <1>4, <1>5

\* A callback is called only for a coroutine that waits for this event.
LEMMA CallbackStep ==
  ASSUME Inv, readable \/ writable
  PROVE  Inv'
<1> USE ConstantsAssumption DEF Inv, Parts, Claims, TypeOK, fdVars
<1>1. cur.fd \in Fds /\ cur.events \subseteq Directions /\ top = Loop
  BY DEF readable, writable, BatchInv, ThreadInv
<1>2. CASE UNCHANGED <<epoll, channels, pc, top>> /\ phase' \in {"writable", "writable done"}
                                                  /\ (readable \/ phase' = "writable done")
  <2>1. UNCHANGED <<fdVars, ioVars, ready, coroVars, batch, cur, closing>>
    BY <1>2 DEF readable, writable, ioVars, coroVars
  <2>2. \A g \in Fds : \A E : Valid(g, E)' = Valid(g, E)
    BY <2>1 DEF Valid, OwnerWaits, ioVars, coroVars
  <2>3. phase' = "writable" => phase = "readable"
    BY <1>2 DEF readable
  <2>4. /\ ThreadInv' /\ DroppedInv' /\ RegistrationInv'
        /\ TypeOK'
    <3>1. UNCHANGED <<channel, owner, readable_callback, writable_callback, epoll, channels, ready,
                      pc, at, top, batch, cur, closing>>
      BY <1>2, <2>1 DEF ioVars, coroVars
    <3>2. phase' \in Phases
      BY <1>2 DEF Phases
    <3>3. TypeOK'
      BY <3>1, <3>2
    <3>4. ThreadInv' /\ DroppedInv' /\ RegistrationInv'
      BY <1>1, <3>1 DEF ThreadInv, DroppedInv, RegistrationInv, OwnerWaits
    <3> QED
      BY <3>3, <3>4
  <2>5. BatchInv'
    BY <1>1, <1>2, <2>1, <2>2, <2>3 DEF BatchInv, readable, writable
  <2>6. Claims'
    BY <1>2, <2>1 DEF AssertionHolds, WaiterIsRegistered, NoSpuriousResume,
       ResumedWhenReady, ioVars, coroVars
  <2> QED
    BY <2>4, <2>5, <2>6
<1>3. ASSUME NEW c, callback(c), Valid(cur.fd, cur.events), c = owner[cur.fd],
             phase' \in {"readable done", "writable done"},
             phase' = "readable done" => "in" \in cur.events,
             UNCHANGED <<fdVars, readable_callback, writable_callback, ready, at, batch,
                         cur, closing>>,
             phase \in {"readable", "writable"}
      PROVE  Inv'
  <2>1. c \in Coros /\ pc[c] = "wait" /\ at[c].fd = cur.fd /\ at[c].events = cur.events
        /\ epoll[cur.fd] \in ready[cur.fd] /\ cur.events = {epoll[cur.fd]}
    BY <1>3 DEF Valid, OwnerWaits, WaiterIsRegistered
  <2>2. /\ epoll' = [epoll EXCEPT ![cur.fd] = "none"]
        /\ channels' = channels \ {cur.fd}
        /\ pc' = [pc EXCEPT ![c] = "resumed"]
        /\ top' = c
    BY <1>3, <2>1 DEF callback, deregister, epoll_ctl_del
  <2>3. TypeOK'
    <3>1. /\ epoll' \in [Fds -> Directions \cup {"none"}]
          /\ channels' \subseteq Fds
          /\ pc' \in [Coros -> {"none", "run", "wait", "resumed", "wild"}]
          /\ top' \in Coros \cup {Loop}
      BY <2>1, <2>2
    <3>2. phase' \in Phases
      BY <1>3 DEF Phases
    <3> QED
      BY <1>3, <3>1, <3>2
  <2>4. ThreadInv'
    <3>1. \A d \in Coros : pc[d] \notin {"run", "resumed"}
      BY <1>1 DEF ThreadInv
    <3>2. \A d \in Coros : pc'[d] \in {"run", "resumed"} <=> d = c
      BY <2>1, <2>2, <3>1
    <3> QED
      BY <1>3, <2>2, <3>2 DEF ThreadInv
  <2>5. \A g \in Fds \ {cur.fd} : OwnerWaits(g)' = OwnerWaits(g)
    BY <1>3, <2>1, <2>2 DEF OwnerWaits
  <2>6. RegistrationInv'
    BY <1>1, <1>3, <2>1, <2>2, <2>5 DEF RegistrationInv
  <2>7. BatchInv'
    <3>1. \A g \in Fds \ {cur.fd} : \A E : Valid(g, E)' = Valid(g, E)
      BY <1>3, <2>2, <2>5 DEF Valid
    <3>2. phase' = "readable done" => "out" \notin cur'.events
      BY <1>3, <2>1
    <3>3. \A g \in DOMAIN batch : g \in Fds \ {cur.fd} /\ Valid(g, batch[g])
      BY <1>3 DEF BatchInv
    <3> QED
      BY <1>1, <1>3, <3>1, <3>2, <3>3 DEF BatchInv
  <2>8. DroppedInv' /\ AssertionHolds'
    BY <1>1, <1>3, <2>2 DEF DroppedInv, AssertionHolds
  <2>9. WaiterIsRegistered'
    <3>1. \A d \in Coros \ {c} : pc[d] = "wait" => at[d].fd \in Fds \ {cur.fd}
      BY <1>3 DEF RegistrationInv
    <3>2. \A d \in Coros : pc'[d] = "wait" =>
            pc[d] = "wait" /\ at'[d] = at[d] /\ at[d].fd \in Fds \ {cur.fd}
      BY <1>3, <2>1, <2>2, <3>1
    <3>3. \A g \in Fds \ {cur.fd} :
            /\ channel'[g] = channel[g] /\ epoll'[g] = epoll[g]
            /\ g \in channels => g \in channels'
            /\ readable_callback'[g] = readable_callback[g]
            /\ writable_callback'[g] = writable_callback[g]
      BY <1>3, <2>2
    <3>4. WaiterIsRegistered
      OBVIOUS
    <3> HIDE DEF Inv, Parts, Claims, TypeOK, fdVars
    <3> QED
      BY <3>2, <3>3, <3>4, WaitersUndisturbed
  <2>10. NoSpuriousResume'
    <3>1. \A d \in Coros : pc'[d] = "resumed" => d = c
      BY <1>1, <2>1, <2>2 DEF ThreadInv
    <3>2. at[c].events \subseteq ready[at[c].fd]
      BY <2>1
    <3>3. \A d \in Coros : pc'[d] # "wild"
      BY <2>1, <2>2 DEF NoSpuriousResume
    <3> QED
      BY <1>3, <3>1, <3>2, <3>3 DEF NoSpuriousResume, ResumedWhenReady
  <2> QED
    BY <2>3, <2>4, <2>6, <2>7, <2>8, <2>9, <2>10
<1>4. CASE readable /\ cur.events \cap {"in", "err"} # {}
  <2>1. phase = "readable" /\ callback(readable_callback[cur.fd]) /\ phase' = "readable done"
    BY <1>4 DEF readable
  <2>2. Valid(cur.fd, cur.events)
    BY <2>1 DEF BatchInv
  <2>3. "in" \in cur.events
    BY <1>1, <1>4 DEF Directions
  <2>4. epoll[cur.fd] = "in"
    BY <2>2, <2>3 DEF Valid
  <2>5. readable_callback[cur.fd] = owner[cur.fd]
    BY <1>1, <2>2, <2>4 DEF Valid, OwnerWaits, WaiterIsRegistered
  <2>6. UNCHANGED <<fdVars, readable_callback, writable_callback, ready, at, batch, cur,
                    closing>>
    BY <1>4 DEF readable
  <2> QED
    BY <1>3, <2>1, <2>2, <2>3, <2>5, <2>6
<1>5. CASE writable /\ CallsWritable
  <2>1. phase = "writable" /\ callback(writable_callback[cur.fd]) /\ phase' = "writable done"
    BY <1>5 DEF writable
  <2>2. "out" \in cur.events
    BY <1>1, <1>5 DEF CallsWritable, Directions
  <2>3. Valid(cur.fd, cur.events)
    BY <2>1, <2>2 DEF BatchInv
  <2>4. epoll[cur.fd] = "out"
    BY <2>2, <2>3 DEF Valid
  <2>5. writable_callback[cur.fd] = owner[cur.fd]
    BY <1>1, <2>3, <2>4 DEF Valid, OwnerWaits, WaiterIsRegistered
  <2>6. UNCHANGED <<fdVars, readable_callback, writable_callback, ready, at, batch, cur,
                    closing>>
    BY <1>5 DEF writable
  <2> QED
    BY <1>3, <2>1, <2>3, <2>5, <2>6
<1> QED
  BY <1>2, <1>4, <1>5 DEF readable, writable

\* The end of one half of an event: no registration is taken away.
LEMMA DoneStep ==
  ASSUME Inv, readable_done \/ writable_done
  PROVE  Inv'
<1> USE ConstantsAssumption DEF Inv, Parts, Claims, TypeOK
<1>1. cur.fd \in Fds /\ cur.events \subseteq Directions /\ top = Loop
  BY DEF readable_done, writable_done, BatchInv
<1>2. "err" \notin cur.events
  BY <1>1 DEF Directions
<1>3. UNCHANGED <<pc, at, top, ready, batch, closing>>
  BY DEF readable_done, writable_done, coroVars
<1>4. CASE channel' = channel
  <2>1. UNCHANGED <<owner, readable_callback, writable_callback, epoll, channels>>
    BY <1>1, <1>2, <1>4 DEF readable_done, writable_done, erase_on_error, fdVars,
       destroy_channel
  <2>2. \A g \in Fds : \A E : Valid(g, E)' = Valid(g, E)
    BY <1>3, <2>1 DEF Valid, OwnerWaits
  <2>3. /\ phase' \in {"poll", "dispatch", "writable"}
        /\ phase' = "writable" => cur' = cur /\ phase = "readable done"
        /\ phase' # "writable" => cur' = NoFd
    BY DEF readable_done, writable_done
  <2>4. TypeOK'
    <3>0. NoFd \in [fd : Fds \cup {nullptr}, events : SUBSET Conditions]
      BY DEF NoFd
    <3>1. cur' \in [fd : Fds \cup {nullptr}, events : SUBSET Conditions]
      BY <2>3, <3>0
    <3>2. phase' \in Phases
      BY <2>3 DEF Phases
    <3> QED
      BY <1>3, <1>4, <2>1, <3>1, <3>2
  <2>5. ThreadInv' /\ DroppedInv' /\ AssertionHolds' /\ RegistrationInv'
    BY <1>1, <1>3, <1>4, <2>1, <2>3 DEF ThreadInv, DroppedInv, AssertionHolds,
       RegistrationInv, OwnerWaits
  <2>6. WaiterIsRegistered' /\ NoSpuriousResume'
    BY <1>3, <1>4, <2>1 DEF WaiterIsRegistered, NoSpuriousResume, ResumedWhenReady
  <2>7. BatchInv'
    <3>1. \A fd \in DOMAIN batch : Valid(fd, batch[fd])
      BY DEF BatchInv, readable_done, writable_done
    <3>2. phase = "readable done" => "out" \notin cur.events
      BY DEF BatchInv
    <3>3. \A fd \in DOMAIN batch : Valid(fd, batch[fd])'
      BY <1>3, <2>2, <3>1
    <3>4. phase' = "writable" => cur' = cur /\ "out" \notin cur.events /\ cur.fd \notin DOMAIN batch
      BY <2>3, <3>2 DEF BatchInv
    <3> HIDE DEF Inv
    <3> QED
      BY <1>1, <1>3, <2>3, <3>3, <3>4 DEF BatchInv
  <2> QED
    BY <2>4, <2>5, <2>6, <2>7
<1>5. CASE writable_done /\ channel[cur.fd] = "dropped"
  <2> DEFINE fd == cur.fd
  <2>1. epoll[fd] = "none" /\ ~OwnerWaits(fd)
    BY <1>1, <1>5 DEF DroppedInv, OwnerWaits, WaiterIsRegistered
  <2>2. /\ epoll' = [epoll EXCEPT ![fd] = "none"]
        /\ channels' = channels \ {fd}
        /\ channel' = [channel EXCEPT ![fd] = "closed"]
        /\ owner' = [owner EXCEPT ![fd] = nullptr]
        /\ readable_callback' = [readable_callback EXCEPT ![fd] = nullptr]
        /\ writable_callback' = [writable_callback EXCEPT ![fd] = nullptr]
        /\ phase' \in {"poll", "dispatch"}
        /\ cur' = NoFd
    BY <1>5 DEF writable_done, destroy_channel, deregister, epoll_ctl_del
  <2>3. \A c \in Coros : pc[c] \notin {"run", "resumed"}
    BY <1>1 DEF ThreadInv
  <2>4. \A c \in Coros : pc[c] = "wait" => at[c].fd \in Fds \ {fd}
    BY <1>5 DEF WaiterIsRegistered, RegistrationInv
  <2>5. \A g \in Fds : OwnerWaits(g)' = OwnerWaits(g)
    BY <1>1, <1>3, <2>1, <2>2, ConstantsAssumption DEF OwnerWaits
  <2>6. TypeOK'
    <3>1. cur' \in [fd : Fds \cup {nullptr}, events : SUBSET Conditions]
      BY <2>2 DEF NoFd
    <3>2. phase' \in Phases
      BY <2>2 DEF Phases
    <3> QED
      BY <1>1, <1>3, <2>2, <3>1, <3>2
  <2>7. ThreadInv' /\ DroppedInv' /\ AssertionHolds'
    BY <1>1, <1>3, <2>2, <2>3 DEF ThreadInv, DroppedInv, AssertionHolds
  <2>8. RegistrationInv'
    BY <1>1, <1>3, <2>2, <2>3, <2>4, <2>5 DEF RegistrationInv
  <2>9. BatchInv'
    <3>1. \A g \in DOMAIN batch : g \in Fds \ {fd} /\ Valid(g, batch[g])
      BY <1>5 DEF BatchInv, writable_done
    <3>2. \A g \in Fds \ {fd} : \A E : Valid(g, E)' = Valid(g, E)
      BY <1>3, <2>2, <2>5 DEF Valid
    <3> QED
      BY <1>3, <2>2, <3>1, <3>2 DEF BatchInv
  <2>10. WaiterIsRegistered'
    <3>1. \A c \in Coros : pc'[c] = "wait" =>
            pc[c] = "wait" /\ at'[c] = at[c] /\ at[c].fd \in Fds \ {fd}
      BY <1>3, <2>4
    <3>2. \A g \in Fds \ {fd} :
            /\ channel'[g] = channel[g] /\ epoll'[g] = epoll[g]
            /\ g \in channels => g \in channels'
            /\ readable_callback'[g] = readable_callback[g]
            /\ writable_callback'[g] = writable_callback[g]
      BY <2>2
    <3>3. WaiterIsRegistered
      OBVIOUS
    <3> HIDE DEF Inv, Parts, Claims, TypeOK, fd
    <3> QED
      BY <3>1, <3>2, <3>3, WaitersUndisturbed
  <2>11. NoSpuriousResume'
    BY <1>3, <2>3 DEF NoSpuriousResume, ResumedWhenReady
  <2> QED
    BY <2>6, <2>7, <2>8, <2>9, <2>10, <2>11
<1>6. channel' = channel \/ (writable_done /\ channel[cur.fd] = "dropped")
  BY DEF readable_done, writable_done, fdVars
<1> QED
  BY <1>4, <1>5, <1>6

\* Steps that only move the loop, or only set the flag of close().
LEMMA StopStep ==
  ASSUME Inv, stop \/ close \/ UNCHANGED vars
  PROVE  Inv'
<1> USE DEF Inv, Parts, Claims, TypeOK
<1>1. UNCHANGED <<channel, owner, readable_callback, writable_callback, channels, epoll, ready,
                  pc, at, top, batch, cur>>
  BY DEF stop, close, vars, fdVars, ioVars, coroVars, pollVars
<1>2. /\ phase' = phase \/ (phase = "poll" /\ phase' = "stopped" /\ top = Loop)
      /\ closing' \in BOOLEAN
  BY DEF stop, close, vars, pollVars
<1>3. \A g \in Fds : \A E : Valid(g, E)' = Valid(g, E)
  BY <1>1 DEF Valid, OwnerWaits
<1>4. TypeOK'
  <2>1. phase' \in Phases
    BY <1>2 DEF Phases
  <2> QED
    BY <1>1, <1>2, <2>1
<1>5. ThreadInv' /\ DroppedInv' /\ AssertionHolds' /\ RegistrationInv'
  BY <1>1, <1>2 DEF ThreadInv, DroppedInv, AssertionHolds, RegistrationInv, OwnerWaits
<1>6. BatchInv'
  BY <1>1, <1>2, <1>3 DEF BatchInv
<1>7. WaiterIsRegistered' /\ NoSpuriousResume'
  BY <1>1 DEF WaiterIsRegistered, NoSpuriousResume, ResumedWhenReady
<1> QED
  BY <1>4, <1>5, <1>6, <1>7

LEMMA InvStep ==
  ASSUME Mild, Inv, [Next]_vars
  PROVE  Inv'
<1>1. ASSUME NEW c \in Coros, CoroStep(c)
      PROVE  Inv'
  <2>1. CASE start(c) \/ finish(c)
    BY <2>1, StartStep
  <2>2. ASSUME NEW fd \in Fds, open(c, fd) \/ drop(c, fd)
        PROVE  Inv'
    BY <2>2, OpenStep, DropStep
  <2>3. ASSUME NEW fd \in Fds, NEW d \in Directions, io_now(c, fd, d) \/ await_suspend(c, fd, d)
        PROVE  Inv'
    BY <2>3, IoNowStep, SuspendStep
  <2>4. CASE await_resume(c)
    BY <2>4, AwaitResumeStep
  <2> QED
    BY <1>1, <2>1, <2>2, <2>3, <2>4 DEF CoroStep
<1>2. CASE Poll
  BY <1>2, BatchStep, CallbackStep, DoneStep, StopStep DEF Poll
<1>3. ASSUME NEW fd \in Fds, NEW new \in Arrivals, arrive(fd, new)
      PROVE  Inv'
  BY <1>3, ArriveStep
<1>4. CASE close \/ UNCHANGED vars
  BY <1>4, StopStep
<1> QED
  BY <1>1, <1>2, <1>3, <1>4 DEF Next

LEMMA Invariance == Mild /\ Spec => []Inv
<1>1. ASSUME Mild
      PROVE  Inv /\ [Next]_vars => Inv'
  BY <1>1, InvStep
<1>2. ASSUME Mild
      PROVE  Spec => []Inv
  <2>1. Inv /\ [Next]_vars => Inv'
    BY <1>1, <1>2
  <2> QED
    BY <2>1, InitInv, PTL DEF Spec
<1> QED
  BY <1>2

-----------------------------------------------------------------------------
\* The variables of the loop and its channels keep their types.
THEOREM TypeCorrect == Mild /\ Spec => []TypeOK
<1>1. Inv => TypeOK
  BY DEF Inv
<1> QED
  BY <1>1, Invariance, PTL

\* poll()'s assertion that the channel of an event is still in channels_ never
\* fails, whatever the coroutines resumed by earlier events of the batch
\* close, open or register, in connections used one way at a time.
THEOREM EventsStayValid == Mild /\ Spec => []AssertionHolds
<1>1. Inv => AssertionHolds
  BY DEF Inv, Claims
<1> QED
  BY <1>1, Invariance, PTL

\* A coroutine suspended in a read, write or accept is registered with epoll
\* and with channels_ for its direction, and its callback resumes it.
THEOREM WaitersAreFound == Mild /\ Spec => []WaiterIsRegistered
<1>1. Inv => WaiterIsRegistered
  BY DEF Inv, Claims
<1> QED
  BY <1>1, Invariance, PTL

\* The callbacks resume a coroutine only when it waits for this event and the
\* fd is ready: the second do_io never fails with EAGAIN.
THEOREM ResumesAreGenuine == Mild /\ Spec => []NoSpuriousResume
<1>1. Inv => NoSpuriousResume
  BY DEF Inv, Claims
<1> QED
  BY <1>1, Invariance, PTL
-----------------------------------------------------------------------------
(* Every step of the loop is a step of the blocking calls it stands for, or *)
(* none.                                                                    *)

\* A resumed coroutine finds the channel it waited for still open.
ResumedOpen == \A c \in Coros : pc[c] = "resumed" => channel[at[c].fd] = "open"

LEMMA ResumedOpenStep ==
  ASSUME Mild, Inv, ResumedOpen, [Next]_vars
  PROVE  ResumedOpen'
<1> SUFFICES ASSUME NEW c \in Coros, pc'[c] = "resumed"
             PROVE  channel'[at'[c].fd] = "open"
  BY DEF ResumedOpen
<1> USE DEF fdVars, ioVars, coroVars, pollVars
<1>1. ASSUME top = Loop, channel' = channel, at' = at,
             pc'[c] = pc[c] \/ pc[c] = "wait"
      PROVE  channel'[at'[c].fd] = "open"
  BY <1>1 DEF Inv, Claims, WaiterIsRegistered, ResumedOpen
<1>2. ASSUME NEW b \in Coros, CoroStep(b)
      PROVE  FALSE
  <2>1. CASE start(b) \/ await_resume(b) \/ finish(b)
    BY <2>1, ConstantsAssumption DEF start, await_resume, finish, Runs, Inv, TypeOK, Parts, ThreadInv
  <2>2. ASSUME NEW fd \in Fds, open(b, fd) \/ drop(b, fd)
        PROVE  FALSE
    BY <2>2 DEF open, drop, Runs, Inv, TypeOK, Parts, ThreadInv
  <2>3. ASSUME NEW fd \in Fds, NEW d \in Directions, io_now(b, fd, d) \/ await_suspend(b, fd, d)
        PROVE  FALSE
    BY <2>3 DEF io_now, await_suspend, register_channel, Runs, Inv, TypeOK, Parts, ThreadInv
  <2> QED
    BY <1>2, <2>1, <2>2, <2>3 DEF CoroStep
<1>3. CASE Poll
  <2>1. CASE epoll_wait \/ stop \/ \E fd \in Fds : dispatch(fd)
    BY <2>1, <1>1 DEF epoll_wait, stop, dispatch, Inv, Parts, ThreadInv
  <2>2. CASE readable \/ writable
    <3>1. top = Loop
      BY <2>2 DEF readable, writable, Inv, Parts, ThreadInv
    <3>2. channel' = channel /\ at' = at
      BY <2>2 DEF readable, writable
    <3>3. pc'[c] = pc[c] \/ pc[c] = "wait"
      BY <2>2 DEF readable, writable, callback, Inv, TypeOK
    <3> QED
      BY <1>1, <3>1, <3>2, <3>3
  <2>3. CASE readable_done \/ writable_done
    <3>1. top = Loop /\ pc' = pc
      BY <2>3 DEF readable_done, writable_done
    <3> QED
      BY <3>1, ConstantsAssumption DEF Inv, Parts, ThreadInv
  <2> QED
    BY <1>3, <2>1, <2>2, <2>3 DEF Poll
<1>4. CASE close \/ (\E fd \in Fds, new \in Arrivals : arrive(fd, new)) \/ UNCHANGED vars
  BY <1>4 DEF close, arrive, vars, ResumedOpen
<1> QED
  BY <1>2, <1>3, <1>4 DEF Next

LEMMA InitRefines == Init => IO!Init
BY DEF Init, IO!Init, Opened, State

\* Steps of the loop that no blocking call shows.
LEMMA HiddenSteps ==
  ASSUME Inv, UNCHANGED <<ready, at>>,
         \A fd \in Fds : channel'[fd] = "open" <=> channel[fd] = "open",
         \A c \in Coros : pc'[c] = pc[c] \/ {pc[c], pc'[c]} \subseteq {"none", "run"}
  PROVE  UNCHANGED IO!vars
<1>1. Opened' = Opened
  BY DEF Opened
<1>2. State' = State
  BY DEF State
<1> QED
  BY <1>1, <1>2 DEF IO!vars

\* Opening, closing, and what the peer does.
LEMMA FdRefines ==
  ASSUME Mild, Inv, NEW fd \in Fds,
         (\E c \in Coros : open(c, fd) \/ drop(c, fd)) \/ \E new \in Arrivals : arrive(fd, new)
  PROVE  IO!Next
<1> USE DEF Inv, TypeOK, Parts, fdVars, ioVars, coroVars, pollVars
<1>1. ASSUME NEW c \in Coros, open(c, fd)
      PROVE  IO!Open(fd)
  <2>1. fd \notin Opened /\ Opened' = Opened \cup {fd}
    BY <1>1 DEF open, Opened
  <2>2. State' = State /\ ready' = [ready EXCEPT ![fd] = {}] /\ at' = at
    BY <1>1 DEF open, State
  <2> QED
    BY <2>1, <2>2 DEF IO!Open
<1>2. ASSUME NEW c \in Coros, drop(c, fd)
      PROVE  IO!Close(fd)
  <2>1. fd \in Opened /\ Opened' = Opened \ {fd}
    BY <1>2 DEF drop, destroy_channel, Opened
  <2>2. State' = State /\ ready' = ready /\ at' = at
    BY <1>2 DEF drop, State
  <2>3. ASSUME NEW b \in Coros, State[b] # "runs"
        PROVE  at[b].fd # fd
    <3>1. pc[b] = "wait"
      BY <1>2, <2>3 DEF State, drop, Runs, ThreadInv, Claims, NoSpuriousResume
    <3> QED
      BY <1>2, <3>1 DEF drop, InUse
  <2> QED
    BY <2>1, <2>2, <2>3 DEF IO!Close
<1>3. ASSUME NEW new \in Arrivals, arrive(fd, new)
      PROVE  \E d \in Directions : IO!Arrive(fd, d)
  <2>1. PICK d \in Directions : new = {d}
    BY <1>3 DEF Arrivals, Mild, Directions
  <2>2. fd \in Opened /\ Opened' = Opened /\ State' = State /\ at' = at
    BY <1>3 DEF arrive, Opened, State
  <2>3. ready' = [ready EXCEPT ![fd] = @ \cup {d}]
    BY <1>3, <2>1 DEF arrive
  <2> QED
    BY <2>2, <2>3 DEF IO!Arrive
<1> QED
  BY <1>1, <1>2, <1>3 DEF IO!Next, IO!Directions, Directions

\* do_io moves data, perhaps the last: connections are not reset.
LEMMA DoIoMoves ==
  ASSUME Inv, NEW fd \in Fds, NEW d, do_io(fd, d)
  PROVE  IO!Moves(fd, d)
<1>1. "reset" \notin ready[fd]
  BY DEF Inv, Parts, RegistrationInv, Directions
<1>2. ready = [ready EXCEPT ![fd] = ready[fd]]
  BY DEF Inv, TypeOK
<1> QED
  BY <1>1, <1>2 DEF do_io, IO!Moves

\* Reading and writing, at once or after a wait.
LEMMA IoRefines ==
  ASSUME Mild, Inv, NEW c \in Coros, NEW fd \in Fds, NEW d \in Directions,
         io_now(c, fd, d) \/ await_suspend(c, fd, d)
  PROVE  IO!Next
<1> USE DEF Inv, TypeOK, Parts, fdVars, ioVars, coroVars, pollVars, Runs
<1>1. fd \in Opened /\ Opened' = Opened
  BY DEF io_now, await_suspend, MayUse, Opened
<1>2. \A b \in Coros : State[b] # "runs" => at[b] # IO!Call(fd, d)
  <2> SUFFICES ASSUME NEW b \in Coros, State[b] # "runs"
               PROVE  at[b] # IO!Call(fd, d)
    OBVIOUS
  <2>1. pc[b] = "wait"
    BY DEF State, io_now, await_suspend, ThreadInv, Claims, NoSpuriousResume
  <2> QED
    BY <2>1 DEF io_now, await_suspend, MayUse, IO!Call
<1>3. CASE io_now(c, fd, d)
  <2>1. State' = State /\ at' = at
    BY <1>3 DEF io_now, State
  <2>2. IO!Moves(fd, d)
    BY <1>3, DoIoMoves DEF io_now
  <2>3. IO!Transfer(fd, d)
    BY <1>1, <1>2, <2>1, <2>2 DEF IO!Transfer
  <2> QED
    BY <2>3 DEF IO!Next, IO!Directions, Directions
<1>4. CASE await_suspend(c, fd, d)
  <2>1. epoll[fd] = "none"
    BY <1>4, RunnerIsFree DEF await_suspend, MayUse, Mild
  <2>2. pc' = [pc EXCEPT ![c] = "wait"] /\ at' = [at EXCEPT ![c] = IO!Call(fd, d)]
    BY <1>4, <2>1 DEF await_suspend, register_channel, IO!Call
  <2>3. State' = [State EXCEPT ![c] = "wait"] /\ State[c] = "runs"
    BY <1>4, <2>2 DEF State, await_suspend
  <2>4. d \notin ready[fd] /\ ready' = ready
    BY <1>4 DEF await_suspend
  <2>5. IO!Block(c, fd, d)
    BY <1>1, <1>2, <2>2, <2>3, <2>4 DEF IO!Block
  <2> QED
    BY <2>5 DEF IO!Next, IO!Directions, Directions
<1> QED
  BY <1>3, <1>4

\* The second do_io after a wait finds what the wait was for.
LEMMA ReturnRefines ==
  ASSUME Inv, ResumedOpen, NEW c \in Coros, await_resume(c)
  PROVE  IO!Next
<1> USE DEF Inv, TypeOK, Parts, fdVars, ioVars, coroVars, pollVars
<1>1. PICK d \in Directions : at[c].events = {d}
  BY DEF await_resume, RegistrationInv, Directions
<1> DEFINE fd == at[c].fd
<1>2. fd \in Fds /\ fd \in Opened
  BY DEF await_resume, RegistrationInv, ResumedOpen, Opened
<1>3. at[c] = IO!Call(fd, d)
  BY <1>1 DEF IO!Call
<1>4. d \in ready[fd]
  BY <1>1 DEF await_resume, Claims, NoSpuriousResume, ResumedWhenReady
<1>5. (CHOOSE e \in at[c].events : TRUE) = d
  BY <1>1
<1>6. do_io(fd, d)
  BY <1>4, <1>5 DEF await_resume
<1>7. IO!Moves(fd, d)
  BY <1>2, <1>6, DoIoMoves
<1>8. Opened' = Opened /\ State[c] = "resumed"
  BY DEF await_resume, Opened, State
<1>9. State' = [State EXCEPT ![c] = "runs"] /\ at' = [at EXCEPT ![c] = NoFd]
  BY DEF await_resume, State
<1>10. IO!Return(c)
  BY <1>2, <1>3, <1>7, <1>8, <1>9 DEF IO!Return, IO!Directions, Directions
<1> QED
  BY <1>10 DEF IO!Next

\* A callback wakes the call whose fd is ready.
LEMMA CallbackRefines ==
  ASSUME Inv, Inv', readable \/ writable
  PROVE  [IO!Next]_(IO!vars)
<1> USE DEF Inv, TypeOK, Parts, fdVars, ioVars, coroVars, pollVars
<1>1. UNCHANGED <<channel, ready, at>>
  BY DEF readable, writable
<1>2. CASE pc' = pc
  BY <1>1, <1>2, HiddenSteps
<1>3. ASSUME NEW c \in Coros \cup {nullptr}, callback(c), pc' # pc
      PROVE  IO!Next
  <2>1. c \in Coros /\ pc' = [pc EXCEPT ![c] = IF pc[c] = "wait" THEN "resumed" ELSE "wild"]
    BY <1>3 DEF callback
  <2>2. pc[c] = "wait" /\ pc' = [pc EXCEPT ![c] = "resumed"]
    BY <2>1 DEF Claims, NoSpuriousResume
  <2>3. at[c].events \subseteq ready[at[c].fd]
    BY <1>1, <2>1, <2>2 DEF Claims, NoSpuriousResume, ResumedWhenReady
  <2>4. State[c] = "wait" /\ State' = [State EXCEPT ![c] = "resumed"]
    BY <2>1, <2>2 DEF State
  <2>5. Opened' = Opened
    BY <1>1 DEF Opened
  <2>6. IO!Wake(c)
    BY <1>1, <2>3, <2>4, <2>5 DEF IO!Wake
  <2> QED
    BY <2>1, <2>6 DEF IO!Next
<1>4. \/ pc' = pc
      \/ \E c \in Coros \cup {nullptr} : callback(c)
  BY DEF readable, writable, BatchInv
<1> QED
  BY <1>2, <1>3, <1>4

LEMMA StepRefines ==
  ASSUME Mild, Inv, Inv', ResumedOpen, [Next]_vars
  PROVE  [IO!Next]_(IO!vars)
<1> USE DEF fdVars, ioVars, coroVars, pollVars
<1>1. ASSUME NEW c \in Coros, CoroStep(c)
      PROVE  [IO!Next]_(IO!vars)
  <2>1. CASE start(c) \/ finish(c)
    <3>1. UNCHANGED <<ready, at, channel>>
      BY <2>1 DEF start, finish
    <3>2. \A b \in Coros : pc'[b] = pc[b] \/ {pc[b], pc'[b]} \subseteq {"none", "run"}
      BY <2>1 DEF start, finish, Runs, Inv, TypeOK
    <3> QED
      BY <3>1, <3>2, HiddenSteps
  <2>2. ASSUME NEW fd \in Fds, open(c, fd) \/ drop(c, fd)
        PROVE  IO!Next
    BY <2>2, FdRefines
  <2>3. ASSUME NEW fd \in Fds, NEW d \in Directions, io_now(c, fd, d) \/ await_suspend(c, fd, d)
        PROVE  IO!Next
    BY <2>3, IoRefines
  <2>4. CASE await_resume(c)
    BY <2>4, ReturnRefines
  <2> QED
    BY <1>1, <2>1, <2>2, <2>3, <2>4 DEF CoroStep
<1>2. CASE Poll
  <2>1. CASE epoll_wait \/ stop \/ readable_done \/ \E fd \in Fds : dispatch(fd)
    <3>1. UNCHANGED <<ready, at, channel, pc>>
      BY <2>1 DEF epoll_wait, stop, readable_done, dispatch
    <3> QED
      BY <3>1, HiddenSteps
  <2>2. CASE writable_done
    <3>1. UNCHANGED <<ready, at, pc>>
      BY <2>2 DEF writable_done
    <3>2. \A fd \in Fds : channel'[fd] = "open" <=> channel[fd] = "open"
      <4>1. \/ channel' = channel
            \/ channel[cur.fd] = "dropped" /\ channel' = [channel EXCEPT ![cur.fd] = "closed"]
        BY <2>2 DEF writable_done, destroy_channel
      <4> QED
        BY <4>1 DEF Inv, TypeOK
    <3> QED
      BY <3>1, <3>2, HiddenSteps
  <2>3. CASE readable \/ writable
    BY <2>3, CallbackRefines
  <2> QED
    BY <1>2, <2>1, <2>2, <2>3 DEF Poll
<1>3. ASSUME NEW fd \in Fds, NEW new \in Arrivals, arrive(fd, new)
      PROVE  IO!Next
  BY <1>3, FdRefines
<1>4. CASE close \/ UNCHANGED vars
  <2>1. UNCHANGED <<ready, at, channel, pc>>
    BY <1>4 DEF close, vars
  <2> QED
    BY <2>1, HiddenSteps
<1> QED
  BY <1>1, <1>2, <1>3, <1>4 DEF Next

\* A co_await of a read, write or accept is a blocking call: for any number of
\* coroutines and connections and any size of a batch, poll(), its table and
\* its callbacks wake exactly the caller, on its own open fd, once it is ready.
THEOREM Refinement == Mild /\ Spec => ImplementsBlockingIO
<1>1. Init => ResumedOpen
  BY DEF Init, ResumedOpen
<1>2. ASSUME Mild
      PROVE  Spec => ImplementsBlockingIO
  <2>1. Spec => []Inv
    BY <1>2, Invariance
  <2>2. Inv /\ ResumedOpen /\ [Next]_vars => ResumedOpen'
    BY <1>2, ResumedOpenStep
  <2>3. Inv /\ Inv' /\ ResumedOpen /\ [Next]_vars => [IO!Next]_(IO!vars)
    BY <1>2, StepRefines
  <2> QED
    BY <1>1, <2>1, <2>2, <2>3, InitRefines, PTL DEF Spec, ImplementsBlockingIO, IO!Spec
<1> QED
  BY <1>2
============================================================================
