----------------------------- MODULE Resources -----------------------------
(***************************************************************************)
(* Who owns the UCX objects of a program: context, worker and endpoint     *)
(* (Endpoint's part of the state) are shared objects that live while a     *)
(* shared_ptr to them exists; local_address, local_memory_handle,          *)
(* packed_memory_rkey and remote_memory_handle are move-only objects in    *)
(* the program's variables, each with a UCX handle that its destructor     *)
(* releases and a shared_ptr to what the handle was made from              *)
(* (address.cc, memory.cc, context.cc, config.cc, worker.cc).              *)
(*                                                                         *)
(* A destructor releases the handle before the shared_ptr members go.  What *)
(* nobody can release any more is in `orphans`.                            *)
(*                                                                         *)
(* Client obligations: a moved-from object is only destroyed, assigned or  *)
(* moved again; no remote handle is made of an endpoint that was closed.   *)
(***************************************************************************)
EXTENDS Endpoint

CONSTANTS
    Vars,               \* C++ variables for the move-only objects
    Handles,            \* UCX handles of addresses, memory and keys
    nullptr,
    Wakeup              \* the program called enable_wakeup()

ASSUME ResourcesAssumption ==
    /\ Vars \subseteq Users
    /\ Closer \notin Vars
    /\ nullptr \notin Handles
    /\ "worker" \notin Handles /\ "request" \notin Handles
    /\ Wakeup \in BOOLEAN

VARIABLES
    context, worker,    \* objects: "none", "alive" or "destroyed"
    held,               \* those the program itself has a shared_ptr to
    class,              \* class[v] of the object in variable v, or "none"
    handle,             \* handle[v]: its UCX handle or nullptr
    parent,             \* variables whose worker_ or ctx_ is not null
    live,               \* live[h]: the class of UCX handle h, or "free"
    orphans             \* history: UCX objects that nobody will release

valueVars == <<class, handle, parent, live>>
sharedVars == <<context, worker, held>>
graphVars == <<vars, sharedVars, valueVars, orphans>>

Classes == {"address", "memory", "packed", "remote"}

GraphInit ==
    /\ Init
    /\ context = "none"
    /\ worker = "none"
    /\ held = {}
    /\ class = [v \in Vars |-> "none"]
    /\ handle = [v \in Vars |-> nullptr]
    /\ parent = {}
    /\ live = [h \in Handles |-> "free"]
    /\ orphans = {}

-----------------------------------------------------------------------------
(* Shared objects *)

\* Seeded fault: local_address does not hold the worker (a raw pointer).
WorkerReferenced_raw == "worker" \in held \/ object = "alive"

\* A shared_ptr to the worker, resp. the context, exists.
WorkerReferenced ==
    \/ "worker" \in held
    \/ object = "alive"
    \/ \E v \in parent : class[v] = "address"

ContextReferenced ==
    \/ "context" \in held
    \/ worker = "alive"
    \/ \E v \in parent : class[v] = "memory"

\* The last reference takes the worker along, and that the context.
Release ==
    /\ worker' = IF worker = "alive" /\ ~WorkerReferenced' THEN "destroyed" ELSE worker
    /\ context' = IF context = "alive" /\ ~ContextReferenced' THEN "destroyed" ELSE context

\* context::builder::build; the configuration read for it is released again.
\* If ucp_init fails there is no context.
build ==
    /\ context = "none"
    /\ context' = "alive"
    /\ held' = held \cup {"context"}
    /\ UNCHANGED <<vars, worker, valueVars, orphans>>

\* worker::worker; when only the second UCX call fails the UCX worker stays.
make_worker ==
    /\ "context" \in held
    /\ worker = "none"
    /\ \/ /\ worker' = "alive"
          /\ held' = held \cup {"worker"}
          /\ UNCHANGED orphans
       \/ /\ Wakeup
          /\ worker' = "destroyed"
          /\ orphans' = orphans \cup {"worker"}
          /\ UNCHANGED held
    /\ UNCHANGED <<vars, context, valueVars>>

make_endpoint ==
    /\ "worker" \in held
    /\ construct
    /\ UNCHANGED <<sharedVars, valueVars, orphans>>

\* The program gives up a shared_ptr of its own.
reset(x) ==
    /\ x \in held
    /\ held' = held \ {x}
    /\ UNCHANGED <<vars, valueVars, orphans>>
    /\ Release

-----------------------------------------------------------------------------
(* Objects with a handle *)

\* UCX hands out h for a new object of class c in variable v.
Make(v, c, h) ==
    /\ class[v] = "none"
    /\ live[h] = "free"
    /\ live' = [live EXCEPT ![h] = c]
    /\ class' = [class EXCEPT ![v] = c]
    /\ handle' = [handle EXCEPT ![v] = h]

\* worker::get_address
get_address(v, h) ==
    /\ "worker" \in held
    /\ Make(v, "address", h)
    /\ parent' = parent \cup {v}
    /\ UNCHANGED <<vars, sharedVars, orphans>>

\* register_mem, and allocate_mem when both its calls succeed.
register_mem(v, h) ==
    /\ "context" \in held
    /\ Make(v, "memory", h)
    /\ parent' = parent \cup {v}
    /\ UNCHANGED <<vars, sharedVars, orphans>>

\* allocate_mem throws when ucp_mem_query fails: what was mapped stays mapped.
allocate_mem_fails(h) ==
    /\ "context" \in held
    /\ live[h] = "free"
    /\ live' = [live EXCEPT ![h] = "memory"]
    /\ orphans' = orphans \cup {h}
    /\ UNCHANGED <<vars, sharedVars, class, handle, parent>>

pack_rkey(v, w, h) ==
    /\ class[v] = "memory"
    /\ handle[v] # nullptr
    /\ Make(w, "packed", h)
    /\ UNCHANGED <<vars, sharedVars, parent, orphans>>

\* Seeded fault: remote_memory_handle does not hold the endpoint.
CopiesEndpoint_not(v) == refs # {} /\ UNCHANGED vars

CopiesEndpoint(v) == share(v)

\* remote_memory_handle: keeps the endpoint's shared_ptr and a copy of ep_.
unpack(v, h) ==
    /\ close_pc = "idle"
    /\ ep_ = "handle"
    /\ CopiesEndpoint(v)
    /\ Make(v, "remote", h)
    /\ UNCHANGED <<sharedVars, parent, orphans>>

\* Seeded fault: the handle is copied out of the object that is moved from.
Exchanged_not(v, w) == [handle EXCEPT ![w] = handle[v]]

\* std::exchange(other.handle, nullptr)
Exchanged(v, w) == [handle EXCEPT ![w] = handle[v], ![v] = nullptr]

\* std::move of the shared_ptr member.
Moved(v, w) == IF v \in parent THEN (parent \ {v}) \cup {w} ELSE parent \ {w}

\* The move constructors.
move(v, w) ==
    /\ class[v] # "none"
    /\ class[w] = "none"
    /\ class' = [class EXCEPT ![w] = class[v]]
    /\ handle' = Exchanged(v, w)
    /\ parent' = Moved(v, w)
    /\ IF v \in refs THEN pass(v, w) ELSE UNCHANGED vars
    /\ UNCHANGED <<sharedVars, live, orphans>>

\* local_address::operator=: the address that w had is not released, its
\* reference to the worker is.
assign(v, w) ==
    /\ v # w
    /\ class[v] = "address"
    /\ class[w] = "address"
    /\ handle' = Exchanged(v, w)
    /\ parent' = Moved(v, w)
    /\ orphans' = orphans \cup ({handle[w]} \ {nullptr})
    /\ UNCHANGED <<vars, held, class, live>>
    /\ Release

\* The destructors; that of a moved-from object releases nothing.
destroy(v) ==
    /\ class[v] # "none"
    /\ live' = [h \in Handles |-> IF h = handle[v] THEN "free" ELSE live[h]]
    /\ class' = [class EXCEPT ![v] = "none"]
    /\ handle' = [handle EXCEPT ![v] = nullptr]
    /\ parent' = parent \ {v}
    /\ IF v \in refs THEN drop(v) ELSE UNCHANGED vars
    /\ UNCHANGED <<held, orphans>>
    /\ Release

-----------------------------------------------------------------------------
(* The endpoint, by itself *)

close_endpoint ==
    /\ close
    /\ UNCHANGED <<sharedVars, valueVars, orphans>>

\* What worker::progress calls; its caller has a reference to the worker until
\* progress returns (worker_ptr() of an endpoint gives one).  Nobody frees the
\* request of error_cb's close.
callback ==
    /\ worker = "alive"
    /\ \/ send_cb /\ UNCHANGED orphans
       \/ error_cb /\ UNCHANGED orphans
       \/ /\ close_cb
          /\ orphans' = IF closing_for = "error_cb" THEN orphans \cup {"request"}
                        ELSE orphans
    /\ UNCHANGED <<held, valueVars>>
    /\ Release

drop_endpoint ==
    /\ \E u \in Users \ Vars : drop(u)
    /\ UNCHANGED <<held, valueVars, orphans>>
    /\ Release

-----------------------------------------------------------------------------
GraphNext ==
    \/ build
    \/ make_worker
    \/ make_endpoint
    \/ \E x \in {"context", "worker"} : reset(x)
    \/ \E h \in Handles :
          \/ allocate_mem_fails(h)
          \/ \E v \in Vars : get_address(v, h) \/ register_mem(v, h) \/ unpack(v, h)
          \/ \E v, w \in Vars : pack_rkey(v, w, h)
    \/ \E v, w \in Vars : move(v, w) \/ assign(v, w)
    \/ \E v \in Vars : destroy(v)
    \/ close_endpoint
    \/ callback
    \/ drop_endpoint

GraphSpec == GraphInit /\ [][GraphNext]_graphVars

\* Progress is called for as long as the worker exists.
GraphFairSpec ==
    GraphSpec /\ WF_graphVars(callback /\ send_cb) /\ WF_graphVars(callback /\ close_cb)

-----------------------------------------------------------------------------
GraphTypeOK ==
    /\ TypeOK
    /\ context \in {"none", "alive", "destroyed"}
    /\ worker \in {"none", "alive", "destroyed"}
    /\ held \subseteq {"context", "worker"}
    /\ class \in [Vars -> Classes \cup {"none"}]
    /\ handle \in [Vars -> Handles \cup {nullptr}]
    /\ parent \subseteq Vars
    /\ live \in [Handles -> Classes \cup {"free"}]
    /\ orphans \subseteq Handles \cup {"worker", "request"}

\* Through all moves, assignments and destructions, each UCX handle is owned by
\* exactly one object of its class or is one of the known orphans: none is
\* released twice, used after its release, or leaked in another way.
OwnedOnce ==
    /\ \A v \in Vars :
          handle[v] # nullptr => /\ live[handle[v]] = class[v]
                                 /\ handle[v] \notin orphans
                                 /\ \A w \in Vars : handle[w] = handle[v] => w = v
    /\ \A h \in Handles :
          live[h] # "free" => h \in orphans \/ \E v \in Vars : handle[v] = h

\* What a UCX object was made from exists until it is released, in whatever
\* order the program's references go: addresses, keys and endpoints never
\* outlive their worker, memory and worker never their context.  A close()
\* that somebody waits for has a worker to complete it.
ParentsOutlive ==
    /\ worker = "alive" => context = "alive"
    /\ object = "alive" \/ closing_for = "close" => worker = "alive"
    /\ \A v \in Vars : handle[v] # nullptr =>
          /\ class[v] \in {"address", "remote"} => worker = "alive"
          /\ class[v] = "memory" => context = "alive"

\* The copy of ep_ in a remote handle names an endpoint that is open, as long
\* as neither close() nor error_cb were called: no destructor closes it.
CachedHandleIsOpen ==
    (\E v \in Vars : class[v] = "remote" /\ handle[v] # nullptr) =>
        failed \/ close_pc # "idle" \/ (native = "open" /\ object = "alive")

==========================================================================
