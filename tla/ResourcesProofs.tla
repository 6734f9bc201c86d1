-------------------------- MODULE ResourcesProofs --------------------------
(***************************************************************************)
(* Proofs, for any number of holders that share an endpoint and any sets   *)
(* of variables and UCX handles.  First the endpoint alone: of close(), the *)
(* error handler and the destructor, only a close() that comes after the   *)
(* error handler ever closes what is null or closed, and the destructor    *)
(* forgets no open endpoint whose constructor found zeroed memory.  The    *)
(* invariant says what ep_ and close_request_ tell the three of each other *)
(* while the object lives.                                                 *)
(*                                                                         *)
(* Then the graph of objects: the endpoint in it behaves as Endpoint says, *)
(* so that the above holds here, too; every handle is owned by one object  *)
(* or a known orphan, and what a handle was made from outlives it.         *)
(***************************************************************************)
EXTENDS Resources, TLAPS

-----------------------------------------------------------------------------
(* The endpoint. *)

\* How far the UCX endpoint is, against the object.
NativeInv ==
    /\ object = "none" => native = "none" /\ ~failed /\ refs = {}
    /\ native = "none" => object = "none"
    /\ refs # {} => object = "alive"

\* What the object knows while it lives: error_cb knows of the close() that is
\* in progress; a destructor that finds a handle and no request has an open
\* endpoint; and so has a close() that was not called yet, unless error_cb
\* found zeroed memory and closed the endpoint before it.
KnowledgeInv ==
    object = "alive" =>
        /\ native = "closing" /\ ~failed => close_request_ = "request"
        /\ ep_ = "handle" /\ close_request_ = "null" => native = "open"
        /\ close_pc = "idle" /\ ~(failed /\ zeroed) =>
               native = "open" /\ ep_ = "handle"
        /\ ~zeroed => close_request_ # "null"

\* An endpoint that nobody closes and nobody forgets.
OpenInv ==
    zeroed /\ native = "open" =>
        /\ object = "alive" => close_request_ = "null" /\ (ep_ = "handle" \/ refused)
        /\ object = "destroyed" => refused

\* TypeOK in two parts: the provers treat Boolean variables differently.
FlagsOK ==
    /\ awaitable_ref \in BOOLEAN
    /\ refused \in BOOLEAN
    /\ failed \in BOOLEAN
    /\ zeroed \in BOOLEAN

DataOK ==
    /\ object \in {"none", "alive", "destroyed"}
    /\ ep_ \in {"handle", "null"}
    /\ close_request_ \in {"null", "garbage", "request", "stale"}
    /\ refs \subseteq Users
    /\ close_pc \in {"idle", "suspended", "done", "threw"}
    /\ native \in {"none", "open", "closing", "closed"}
    /\ closing_for \in {"nobody", "close", "error_cb", "destructor"}
    /\ misused \subseteq {"close", "error_cb", "destructor"}

Inv == TypeOK /\ NativeInv /\ KnowledgeInv /\ OnlyLateCloseMisuses /\ OpenInv

-----------------------------------------------------------------------------
LEMMA InitInv == Init => Inv
<1> SUFFICES ASSUME Init
             PROVE  Inv
  OBVIOUS
<1>1. TypeOK
  BY DEF Init, TypeOK
<1>2. NativeInv
  BY DEF Init, NativeInv
<1>3. KnowledgeInv /\ OnlyLateCloseMisuses /\ OpenInv
  BY DEF Init, KnowledgeInv, OnlyLateCloseMisuses, OpenInv
<1> QED
  BY <1>1, <1>2, <1>3 DEF Inv

\* The flags stay Boolean.
LEMMA FlagsStep == FlagsOK /\ [Next]_vars => FlagsOK'
<1> SUFFICES ASSUME FlagsOK, [Next]_vars
             PROVE  FlagsOK'
  OBVIOUS
<1> USE DEF FlagsOK, objectVars, ucxVars
<1>1. CASE construct
  BY <1>1 DEF construct
<1>2. CASE close_now
  BY <1>2 DEF close_now
<1>3. CASE close_refused
  BY <1>3 DEF close_refused, Forget
<1>4. CASE close_misuses \/ close_pending
  BY <1>4 DEF close_misuses, close_pending
<1>5. CASE send_cb
  BY <1>5 DEF send_cb, Cleared
<1>6. CASE error_cb
  <2>1. failed' = TRUE /\ UNCHANGED <<awaitable_ref, zeroed>>
    BY <1>6 DEF error_cb
  <2>2. refused' = (native' = "open") \/ refused' = refused
    BY <1>6 DEF error_cb
  <2> QED
    BY <2>1, <2>2
<1>7. CASE close_cb
  BY <1>7 DEF close_cb
<1>8. ASSUME NEW u \in Users, drop(u)
      PROVE  FlagsOK'
  <2>1. UNCHANGED <<awaitable_ref, failed, zeroed>>
    BY <1>8 DEF drop
  <2>2. refused' = TRUE \/ refused' = refused
    BY <1>8 DEF drop, destructor, NoDestructor
  <2> QED
    BY <2>1, <2>2
<1>9. CASE UNCHANGED vars
  BY <1>9 DEF vars
<1>10. ASSUME NEW u \in Users, share(u) \/ \E w \in Users : pass(u, w)
       PROVE  FlagsOK'
  BY <1>10 DEF share, pass
<1> QED
  BY <1>1, <1>2, <1>3, <1>4, <1>5, <1>6, <1>7, <1>8, <1>9, <1>10 DEF Next, close

\* The other variables keep their types.
LEMMA DataStep == DataOK /\ [Next]_vars => DataOK'
<1> SUFFICES ASSUME DataOK, [Next]_vars
             PROVE  DataOK'
  OBVIOUS
<1> USE DEF DataOK, objectVars, ucxVars
<1>1. CASE construct
  BY <1>1, ConstantsAssumption DEF construct
<1>2. CASE close_now
  BY <1>2 DEF close_now, CloseNow
<1>3. CASE close_refused
  BY <1>3 DEF close_refused, Forget
<1>4. CASE close_misuses \/ close_pending
  BY <1>4 DEF close_misuses, close_pending, CloseLater, Misuses, Remember
<1>5. CASE send_cb
  BY <1>5 DEF send_cb, Cleared
<1>6. CASE error_cb
  BY <1>6 DEF error_cb, CloseNow, CloseLater, Misuses
<1>7. CASE close_cb
  BY <1>7 DEF close_cb
<1>8. ASSUME NEW u \in Users, drop(u)
      PROVE  DataOK'
  BY <1>8 DEF drop, destructor, NoDestructor, CloseNow, CloseLater, Misuses
<1>9. CASE UNCHANGED vars
  BY <1>9 DEF vars
<1>10. ASSUME NEW u \in Users, share(u) \/ \E w \in Users : pass(u, w)
       PROVE  DataOK'
  BY <1>10 DEF share, pass
<1> QED
  BY <1>1, <1>2, <1>3, <1>4, <1>5, <1>6, <1>7, <1>8, <1>9, <1>10 DEF Next, close

LEMMA TypeStep == TypeOK /\ [Next]_vars => TypeOK'
<1>1. TypeOK <=> DataOK /\ FlagsOK
  BY DEF TypeOK, DataOK, FlagsOK
<1>2. TypeOK' <=> DataOK' /\ FlagsOK'
  BY DEF TypeOK, DataOK, FlagsOK
<1> QED
  BY <1>1, <1>2, DataStep, FlagsStep

\* close() knows nothing of error_cb; error_cb and the destructor know of all.
LEMMA InvStep == Inv /\ [Next]_vars => Inv'
<1> SUFFICES ASSUME Inv, [Next]_vars
             PROVE  NativeInv' /\ KnowledgeInv' /\ OnlyLateCloseMisuses' /\ OpenInv'
  BY TypeStep DEF Inv
<1> USE DEF Inv, TypeOK, NativeInv, KnowledgeInv, OnlyLateCloseMisuses, OpenInv,
        objectVars, ucxVars
<1>1. CASE construct
  BY <1>1 DEF construct
<1>2. CASE close_now
  BY <1>2 DEF close_now, CloseNow, MayClose, Closable
<1>3. CASE close_refused
  BY <1>3 DEF close_refused, Forget
<1>4. CASE close_misuses
  <2>1. failed /\ zeroed
    BY <1>4 DEF close_misuses, MayClose, Closable
  <2> QED
    BY <1>4, <2>1 DEF close_misuses, Misuses
<1>5. CASE close_pending
  BY <1>5 DEF close_pending, CloseLater, Remember, MayClose, Closable
<1>6. CASE send_cb
  BY <1>6 DEF send_cb, Cleared
<1>7. CASE error_cb
  <2>1. CASE close_request_ # "null"
    BY <1>7, <2>1 DEF error_cb, HandlerCloses
  <2>2. CASE close_request_ = "null"
    <3>1. native = "open" /\ zeroed
      BY <1>7, <2>2 DEF error_cb
    <3> QED
      BY <1>7, <2>2, <3>1 DEF error_cb, HandlerCloses, CloseNow, CloseLater
  <2> QED
    BY <2>1, <2>2
<1>8. CASE close_cb
  BY <1>8 DEF close_cb
<1>9. ASSUME NEW u \in Users, drop(u)
      PROVE  NativeInv' /\ KnowledgeInv' /\ OnlyLateCloseMisuses' /\ OpenInv'
  <2>1. object = "alive"
    BY <1>9 DEF drop
  <2>2. CASE refs = {u} /\ ~awaitable_ref
    BY <1>9, <2>1, <2>2 DEF drop, destructor, MustClose, Closable, CloseNow, CloseLater
  <2>3. CASE ~(refs = {u} /\ ~awaitable_ref)
    BY <1>9, <2>1, <2>3 DEF drop, NoDestructor
  <2> QED
    BY <2>2, <2>3
<1>10. CASE UNCHANGED vars
  BY <1>10 DEF vars
<1>11. ASSUME NEW u \in Users, share(u) \/ \E w \in Users : pass(u, w)
       PROVE  NativeInv' /\ KnowledgeInv' /\ OnlyLateCloseMisuses' /\ OpenInv'
  <2>1. refs # {}
    BY <1>11 DEF share, pass
  <2>2. UNCHANGED <<object, ep_, close_request_, close_pc, native, misused, refused,
                    failed, zeroed>>
    BY <1>11 DEF share, pass
  <2> QED
    BY <2>1, <2>2
<1> QED
  BY <1>1, <1>2, <1>3, <1>4, <1>5, <1>6, <1>7, <1>8, <1>9, <1>10, <1>11 DEF Next, close

-----------------------------------------------------------------------------
\* Type correctness of the endpoint (endpoint.h), whatever its clients do.
THEOREM TypeCorrect == Spec => []TypeOK
<1>1. Init => TypeOK
  BY InitInv DEF Inv
<1> QED
  BY <1>1, TypeStep, PTL DEF Spec

\* What close(), error_cb and ~endpoint know of each other.
THEOREM Invariance == Spec => []Inv
BY InitInv, InvStep, PTL DEF Spec

\* error_cb and the destructor never close what is null or closed (endpoint.cc:24,
\* :92); close() (:80) does only after an error_cb that found zeroed memory.
THEOREM MisuseIsLate == Spec => []OnlyLateCloseMisuses
<1>1. Inv => OnlyLateCloseMisuses
  BY DEF Inv
<1> QED
  BY <1>1, Invariance, PTL

\* The destructor closes what is open (endpoint.cc:92), unless UCX refuses, if
\* the memory of close_request_ happened to be zero.
THEOREM DestructorCloses == Spec => []ClosedOnDestroyIfZeroed
<1>1. Inv => ClosedOnDestroyIfZeroed
  BY DEF Inv, TypeOK, OpenInv, ClosedOnDestroy, ClosedOnDestroyIfZeroed
<1> QED
  BY <1>1, Invariance, PTL
-----------------------------------------------------------------------------
(* The graph of objects. *)

\* References keep their objects.
RefsInv ==
    /\ "worker" \in held => worker = "alive"
    /\ "context" \in held => context = "alive"
    /\ object = "alive" => worker = "alive"
    /\ worker = "alive" => context = "alive"
    /\ \A v \in parent : /\ class[v] = "address" => worker = "alive"
                         /\ class[v] = "memory" => context = "alive"

\* An object with a handle holds its reference; the endpoint's is in refs.
HandleInv ==
    \A v \in Vars :
        /\ class[v] = "none" => handle[v] = nullptr /\ v \notin parent
        /\ handle[v] # nullptr => /\ class[v] \in {"address", "memory"} => v \in parent
                                  /\ class[v] = "remote" => v \in refs
        /\ v \in refs => class[v] = "remote"

\* The coroutine close() holds the endpoint while UCX closes it.
CloseInv ==
    /\ closing_for = "close" <=> awaitable_ref
    /\ awaitable_ref => /\ object = "alive"
                        /\ close_pc = "suspended"
                        /\ close_request_ # "null"
    /\ refs # {} => object = "alive"
    /\ object = "alive" /\ ~failed /\ close_pc = "idle" => native = "open"

OrphansStay == \A h \in orphans \cap Handles : live[h] # "free"

GraphData ==
    /\ context \in {"none", "alive", "destroyed"}
    /\ worker \in {"none", "alive", "destroyed"}
    /\ held \subseteq {"context", "worker"}
    /\ class \in [Vars -> Classes \cup {"none"}]
    /\ handle \in [Vars -> Handles \cup {nullptr}]
    /\ parent \subseteq Vars
    /\ live \in [Handles -> Classes \cup {"free"}]
    /\ orphans \subseteq Handles \cup {"worker", "request"}

-----------------------------------------------------------------------------
\* A step of the graph is a step of its endpoint, or leaves the endpoint alone.
LEMMA StepRefines == [GraphNext]_graphVars => [Next]_vars
<1> SUFFICES ASSUME [GraphNext]_graphVars
             PROVE  [Next]_vars
  OBVIOUS
<1>1. CASE UNCHANGED graphVars
  BY <1>1 DEF graphVars
<1>2. CASE build \/ make_worker \/ \E x \in {"context", "worker"} : reset(x)
  BY <1>2 DEF build, make_worker, reset
<1>3. CASE make_endpoint
  BY <1>3 DEF make_endpoint, Next
<1>4. ASSUME NEW h \in Handles, allocate_mem_fails(h)
      PROVE  [Next]_vars
  BY <1>4 DEF allocate_mem_fails
<1>5. ASSUME NEW h \in Handles, NEW v \in Vars,
             get_address(v, h) \/ register_mem(v, h) \/ unpack(v, h)
      PROVE  [Next]_vars
  BY <1>5, ResourcesAssumption
     DEF get_address, register_mem, unpack, CopiesEndpoint, Next
<1>6. ASSUME NEW h \in Handles, NEW v \in Vars, NEW w \in Vars, pack_rkey(v, w, h)
      PROVE  [Next]_vars
  BY <1>6 DEF pack_rkey
<1>7. ASSUME NEW v \in Vars, NEW w \in Vars, move(v, w) \/ assign(v, w)
      PROVE  [Next]_vars
  BY <1>7, ResourcesAssumption DEF move, assign, Next
<1>8. ASSUME NEW v \in Vars, destroy(v)
      PROVE  [Next]_vars
  BY <1>8, ResourcesAssumption DEF destroy, Next
<1>9. CASE close_endpoint
  BY <1>9 DEF close_endpoint, Next
<1>10. CASE callback
  BY <1>10 DEF callback, Next
<1>11. CASE drop_endpoint
  BY <1>11 DEF drop_endpoint, Next
<1> QED
  BY <1>1, <1>2, <1>3, <1>4, <1>5, <1>6, <1>7, <1>8, <1>9, <1>10, <1>11 DEF GraphNext

\* The endpoint in the graph of objects is the endpoint of Endpoint: Resources
\* implements it (endpoint.cc, used through addresses and memory handles).
THEOREM EndpointRefined == GraphSpec => Spec
<1>1. GraphInit => Init
  BY DEF GraphInit
<1> QED
  BY <1>1, StepRefines, PTL DEF GraphSpec, Spec

-----------------------------------------------------------------------------
GraphInv == GraphData /\ RefsInv /\ HandleInv /\ OrphansStay /\ OwnedOnce

LEMMA CloseStep == TypeOK /\ CloseInv /\ [Next]_vars => CloseInv'
<1> SUFFICES ASSUME TypeOK, CloseInv, [Next]_vars
             PROVE  CloseInv'
  OBVIOUS
<1> USE DEF TypeOK, CloseInv, objectVars, ucxVars
<1>1. CASE construct
  BY <1>1 DEF construct
<1>2. CASE close
  <2>1. CASE close_now
    BY <2>1 DEF close_now, CloseNow, MayClose
  <2>2. CASE close_refused
    BY <2>2 DEF close_refused, MayClose, Forget
  <2>3. CASE close_misuses
    BY <2>3 DEF close_misuses, MayClose
  <2>4. CASE close_pending
    BY <2>4 DEF close_pending, CloseLater, Remember, MayClose
  <2> QED
    BY <1>2, <2>1, <2>2, <2>3, <2>4 DEF close
<1>3. CASE send_cb
  BY <1>3 DEF send_cb, Cleared
<1>4. CASE error_cb
  BY <1>4 DEF error_cb, HandlerCloses, CloseNow, CloseLater
<1>5. CASE close_cb
  BY <1>5 DEF close_cb
<1>6. ASSUME NEW u \in Users, drop(u)
      PROVE  CloseInv'
  BY <1>6 DEF drop, destructor, NoDestructor, CloseNow, CloseLater
<1>7. ASSUME NEW u \in Users, share(u) \/ \E w \in Users : pass(u, w)
      PROVE  CloseInv'
  BY <1>7 DEF share, pass
<1>8. CASE UNCHANGED vars
  BY <1>8 DEF vars
<1> QED
  BY <1>1, <1>2, <1>3, <1>4, <1>5, <1>6, <1>7, <1>8 DEF Next

\* An object goes only with its last reference.
LEMMA ReleaseKeeps ==
  ASSUME Release,
         "worker" \in held' \/ object' = "alive" => worker = "alive",
         "context" \in held' => context = "alive",
         worker = "alive" => context = "alive",
         \A v \in parent' : /\ class'[v] = "address" => worker = "alive"
                            /\ class'[v] = "memory" => context = "alive"
  PROVE  RefsInv'
BY DEF Release, RefsInv, WorkerReferenced, ContextReferenced

LEMMA GraphStep == TypeOK /\ CloseInv /\ GraphInv /\ [GraphNext]_graphVars => GraphInv'
<1> SUFFICES ASSUME TypeOK, CloseInv, GraphInv, [GraphNext]_graphVars
             PROVE  GraphInv'
  OBVIOUS
<1> USE ResourcesAssumption DEF GraphInv, GraphData, Classes, vars, objectVars, ucxVars,
        sharedVars, valueVars
<1>1. CASE UNCHANGED graphVars
  BY <1>1 DEF graphVars, RefsInv, HandleInv, OrphansStay, OwnedOnce
<1>2. CASE build \/ make_worker
  <2>1. /\ UNCHANGED <<vars, valueVars>>
        /\ orphans' \in {orphans, orphans \cup {"worker"}}
    BY <1>2 DEF build, make_worker
  <2>2. GraphData'
    BY <1>2, <2>1 DEF build, make_worker
  <2>3. RefsInv'
    <3>1. CASE build
      BY <3>1 DEF build, RefsInv
    <3>2. CASE make_worker
      BY <3>2 DEF make_worker, RefsInv
    <3> QED
      BY <1>2, <3>1, <3>2
  <2>4. HandleInv'
    BY <2>1 DEF HandleInv
  <2>5. OrphansStay' /\ OwnedOnce'
    BY <2>1 DEF OrphansStay, OwnedOnce
  <2> QED
    BY <2>2, <2>3, <2>4, <2>5
<1>3. CASE make_endpoint
  <2>1. refs = {} /\ refs' = {Closer} /\ worker = "alive"
    BY <1>3 DEF make_endpoint, construct, RefsInv, CloseInv
  <2>2. UNCHANGED <<sharedVars, valueVars, orphans>>
    BY <1>3 DEF make_endpoint
  <2>3. GraphData' /\ RefsInv'
    BY <2>1, <2>2 DEF RefsInv
  <2>4. HandleInv' /\ OrphansStay' /\ OwnedOnce'
    BY <2>1, <2>2 DEF HandleInv, OrphansStay, OwnedOnce
  <2> QED
    BY <2>3, <2>4
<1>4. ASSUME NEW x \in {"context", "worker"}, reset(x)
      PROVE  GraphInv'
  BY <1>4, ReleaseKeeps DEF reset, RefsInv, Release, HandleInv, OrphansStay, OwnedOnce
<1>5. ASSUME NEW h \in Handles, allocate_mem_fails(h)
      PROVE  GraphInv'
  BY <1>5 DEF allocate_mem_fails, RefsInv, HandleInv, OrphansStay, OwnedOnce
<1>6. ASSUME NEW h \in Handles, NEW v \in Vars,
             get_address(v, h) \/ register_mem(v, h)
      PROVE  GraphInv'
  <2>1. UNCHANGED <<vars, sharedVars, orphans>>
    BY <1>6 DEF get_address, register_mem
  <2>2. GraphData'
    BY <1>6, <2>1 DEF get_address, register_mem, Make
  <2>3. RefsInv'
    BY <1>6, <2>1 DEF get_address, register_mem, Make, RefsInv
  <2>4. HandleInv'
    BY <1>6, <2>1 DEF get_address, register_mem, Make, HandleInv
  <2>5. OrphansStay' /\ OwnedOnce'
    BY <1>6, <2>1 DEF get_address, register_mem, Make, OrphansStay, OwnedOnce
  <2> QED
    BY <2>2, <2>3, <2>4, <2>5
<1>7. ASSUME NEW h \in Handles, NEW v \in Vars, unpack(v, h)
      PROVE  GraphInv'
  BY <1>7 DEF unpack, share, CopiesEndpoint, Make, RefsInv, HandleInv, OrphansStay, OwnedOnce
<1>8. ASSUME NEW h \in Handles, NEW v \in Vars, NEW w \in Vars, pack_rkey(v, w, h)
      PROVE  GraphInv'
  BY <1>8 DEF pack_rkey, Make, RefsInv, HandleInv, OrphansStay, OwnedOnce
<1>9. ASSUME NEW v \in Vars, NEW w \in Vars, move(v, w)
      PROVE  GraphInv'
  BY <1>9 DEF move, pass, Moved, Exchanged, RefsInv, HandleInv, OrphansStay, OwnedOnce
<1>10. ASSUME NEW v \in Vars, NEW w \in Vars, assign(v, w)
      PROVE  GraphInv'
  BY <1>10, ReleaseKeeps DEF assign, Moved, Exchanged, RefsInv, Release, HandleInv,
     OrphansStay, OwnedOnce
<1>11. ASSUME NEW v \in Vars, destroy(v)
      PROVE  GraphInv'
  <2>1. refs' = refs \ {v} /\ (object' = "alive" => object = "alive")
    BY <1>11 DEF destroy, drop, destructor, NoDestructor
  <2>2. /\ live' = [h \in Handles |-> IF h = handle[v] THEN "free" ELSE live[h]]
        /\ class' = [class EXCEPT ![v] = "none"]
        /\ handle' = [handle EXCEPT ![v] = nullptr]
        /\ parent' = parent \ {v}
        /\ UNCHANGED <<held, orphans>>
        /\ Release
    BY <1>11 DEF destroy
  <2>3. GraphData'
    BY <2>2 DEF Release
  <2>4. RefsInv'
    BY <2>1, <2>2, ReleaseKeeps DEF RefsInv
  <2>5. HandleInv'
    BY <2>1, <2>2 DEF HandleInv
  <2>6. OrphansStay' /\ OwnedOnce'
    BY <2>2 DEF OrphansStay, OwnedOnce
  <2> QED
    BY <2>3, <2>4, <2>5, <2>6
<1>12. CASE close_endpoint
  <2>1. UNCHANGED <<object, refs, sharedVars, valueVars, orphans>>
    BY <1>12 DEF close_endpoint, close, close_now, close_refused, close_misuses,
       close_pending
  <2> QED
    BY <2>1 DEF RefsInv, HandleInv, OrphansStay, OwnedOnce
<1>13. CASE callback
  <2>1. UNCHANGED <<refs, held, valueVars>> /\ (object' = "alive" => object = "alive")
    BY <1>13 DEF callback, send_cb, error_cb, close_cb
  <2>2. orphans' \in {orphans, orphans \cup {"request"}} /\ Release
    BY <1>13 DEF callback
  <2>3. GraphData'
    BY <2>1, <2>2 DEF Release
  <2>4. RefsInv'
    BY <2>1, <2>2, ReleaseKeeps DEF RefsInv
  <2>5. HandleInv'
    BY <2>1 DEF HandleInv
  <2>6. OrphansStay' /\ OwnedOnce'
    BY <1>13, <2>1, <2>2 DEF OrphansStay, OwnedOnce
  <2> QED
    BY <2>3, <2>4, <2>5, <2>6
<1>14. CASE drop_endpoint
  <2>1. PICK u \in Users \ Vars : drop(u)
    BY <1>14 DEF drop_endpoint
  <2>2. refs' = refs \ {u} /\ (object' = "alive" => object = "alive")
    BY <2>1 DEF drop, destructor, NoDestructor
  <2>3. UNCHANGED <<held, valueVars, orphans>> /\ Release
    BY <1>14 DEF drop_endpoint
  <2>4. GraphData' /\ OrphansStay' /\ OwnedOnce'
    BY <2>3 DEF Release, OrphansStay, OwnedOnce
  <2>5. RefsInv'
    BY <2>2, <2>3, ReleaseKeeps DEF RefsInv
  <2>6. HandleInv'
    BY <2>1, <2>2, <2>3 DEF HandleInv
  <2> QED
    BY <2>4, <2>5, <2>6
<1> QED
  BY <1>1, <1>2, <1>3, <1>4, <1>5, <1>6, <1>7, <1>8, <1>9, <1>10, <1>11, <1>12, <1>13,
     <1>14 DEF GraphNext

-----------------------------------------------------------------------------
LEMMA GraphInitially == GraphInit => CloseInv /\ GraphInv
BY ResourcesAssumption
   DEF GraphInit, Init, CloseInv, GraphInv, GraphData, RefsInv, HandleInv,
       OrphansStay, OwnedOnce

LEMMA GraphAlways == GraphSpec => [](TypeOK /\ CloseInv /\ GraphInv)
<1>1. TypeOK /\ CloseInv /\ [GraphNext]_graphVars => CloseInv'
  BY StepRefines, CloseStep
<1> QED
  BY <1>1, GraphInitially, GraphStep, EndpointRefined, TypeCorrect, PTL DEF GraphSpec

\* What the variables of context, worker, addresses and memory handles hold.
THEOREM GraphTypeCorrect == GraphSpec => []GraphTypeOK
<1>1. TypeOK /\ GraphInv => GraphTypeOK
  BY DEF GraphInv, GraphData, GraphTypeOK
<1> QED
  BY <1>1, GraphAlways, PTL

\* No address, memory or key handle is released twice, used after its release
\* or leaked, but for the known orphans (address.cc, memory.cc).
THEOREM HandlesOwnedOnce == GraphSpec => []OwnedOnce
<1>1. GraphInv => OwnedOnce
  BY DEF GraphInv
<1> QED
  BY <1>1, GraphAlways, PTL

\* In whatever order references go, worker and context outlive what was made
\* from them (the shared_ptr members of worker.h, endpoint.h, address.h, memory.h).
THEOREM ParentsLive == GraphSpec => []ParentsOutlive
<1>1. CloseInv /\ GraphInv => ParentsOutlive
  <2> SUFFICES ASSUME CloseInv, GraphInv
               PROVE  ParentsOutlive
    OBVIOUS
  <2>1. closing_for = "close" => object = "alive"
    BY DEF CloseInv
  <2>2. ASSUME NEW v \in Vars, handle[v] # nullptr
        PROVE  /\ class[v] \in {"address", "remote"} => worker = "alive"
               /\ class[v] = "memory" => context = "alive"
    BY <2>2 DEF GraphInv, GraphData, Classes, RefsInv, HandleInv, CloseInv
  <2> QED
    BY <2>1, <2>2 DEF ParentsOutlive, GraphInv, RefsInv
<1> QED
  BY <1>1, GraphAlways, PTL

\* Until close() or error_cb is called a remote memory handle's copy of ep_
\* names an open endpoint (memory.cc: remote_memory_handle).
THEOREM CachedHandles == GraphSpec => []CachedHandleIsOpen
<1>1. CloseInv /\ GraphInv => CachedHandleIsOpen
  BY DEF CloseInv, GraphInv, HandleInv, CachedHandleIsOpen
<1> QED
  BY <1>1, GraphAlways, PTL
============================================================================
