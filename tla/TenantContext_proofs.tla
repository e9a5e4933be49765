-------------------------- MODULE TenantContext_proofs --------------------------
(***************************************************************************)
(* Proofs about TenantContext, for any threads, organizations and users.   *)
(*                                                                         *)
(* No property is inductive alone. Settled says, for one thread, what each *)
(* kind of job has made of the context at each point: who set it, what the *)
(* open manager will restore, and what may have been read so far.          *)
(***************************************************************************)
EXTENDS TenantContext, TLAPS

Task(th) == kind[th] \in {"bare", "managed", "decorated"}

(* A thread between jobs, or serving a request that is not dispatched yet.  *)
Fresh(th) ==
    /\ pc[th] = "idle" => kind[th] = "bare" /\ ctx[th] = NoOrg /\ reads[th] = {}
    /\ pc[th] = "routed" => /\ kind[th] \in {"web", "api"} /\ reads[th] = {}
                            /\ kind[th] = "web" => ctx[th] = RequestOrg(th)

(* A request in its view or in a service works for the organization it may: *)
(* without a header the request's organization is the slug's or the user's. *)
Entitled(th) ==
    pc[th] \in {"view", "service"} =>
        /\ kind[th] # "web" => tenant[th] \in Orgs
        /\ kind[th] = "web" => /\ MayEnter(user[th], slug[th])
                               /\ header[th] \notin Orgs => tenant[th] = RequestOrg(th)
        /\ kind[th] = "api" => tenant[th] = ApiOrg(th) /\ ApiOrg(th) # NoOrg
        /\ Plain(th) /\ pc[th] = "view" => ctx[th] = tenant[th]
        /\ Plain(th) /\ pc[th] = "service" => token[th] = tenant[th]

(* What each kind of task does with the context.                            *)
Worker(th) ==
    /\ kind[th] = "bare" => ctx[th] = NoOrg /\ pc[th] # "service"
    /\ kind[th] = "managed" => /\ pc[th] # "service" => ctx[th] = NoOrg
                               /\ pc[th] = "service" => token[th] = NoOrg
    /\ kind[th] = "decorated" => /\ pc[th] # "service"
                                 /\ pc[th] = "view" => ctx[th] = tenant[th]

(* What a request or a task has read, and that a service works for it.      *)
Bounded(th) ==
    /\ (Plain(th) \/ Task(th)) => reads[th] \subseteq {tenant[th]}
    /\ pc[th] = "service" => ctx[th] \in reads[th]

Settled(th) == Fresh(th) /\ Entitled(th) /\ Worker(th) /\ Bounded(th)

CInv == TypeOK /\ \A th \in Threads : Settled(th)

(***************************************************************************)
(* Every step keeps the types.                                             *)
(***************************************************************************)
LEMMA TypeStep == CInv /\ [Next]_vars => TypeOK'
<1>. SUFFICES ASSUME CInv, [Next]_vars PROVE TypeOK'
    OBVIOUS
<1>. USE ContextAssumption DEF CInv, TypeOK, MaybeOrgs, Kinds
<1>1. ASSUME NEW th \in Threads, Arrive(th) PROVE TypeOK'
    BY <1>1 DEF Arrive, SetContext, GoTo, MaybeOrgs, Kinds, Resolve
<1>2. ASSUME NEW th \in Threads, WebDispatch(th) PROVE TypeOK'
    BY <1>2 DEF WebDispatch, Found, GoTo, RequestOrg, Resolve
<1>3. ASSUME NEW th \in Threads, ApiDispatch(th) PROVE TypeOK'
    BY <1>3 DEF ApiDispatch, SetContext, GoTo, ApiOrg
<1>4. ASSUME NEW th \in Threads, SetInView(th) PROVE TypeOK'
    BY <1>4 DEF SetInView, SetContext
<1>5. ASSUME NEW th \in Threads, StartTask(th) PROVE TypeOK'
    BY <1>5 DEF StartTask, SetContext, GoTo
<1>6. ASSUME NEW th \in Threads, ReadFiltered(th) PROVE TypeOK'
    BY <1>6 DEF ReadFiltered, Record, Visible
<1>7. ASSUME NEW th \in Threads, ReadByContext(th) PROVE TypeOK'
    BY <1>7 DEF ReadByContext, Record, Visible
<1>8. ASSUME NEW th \in Threads, ReadUnfiltered(th) PROVE TypeOK'
    BY <1>8 DEF ReadUnfiltered, Record, Settled, Entitled
<1>9. ASSUME NEW th \in Threads, EnterManager(th) PROVE TypeOK'
    BY <1>9 DEF EnterManager, SetContext, GoTo
<1>10. ASSUME NEW th \in Threads, ExitManager(th) PROVE TypeOK'
    BY <1>10 DEF ExitManager, Restore, SetContext, GoTo
<1>11. ASSUME NEW th \in Threads, Leave(th) PROVE TypeOK'
    BY <1>11 DEF Leave, GoTo
<1>12. ASSUME NEW th \in Threads, Finish(th) PROVE TypeOK'
    BY <1>12 DEF Finish, Clear, SetContext, GoTo
<1>13. CASE UNCHANGED vars
    BY <1>13 DEF vars
<1>. QED BY <1>1, <1>2, <1>3, <1>4, <1>5, <1>6, <1>7, <1>8, <1>9, <1>10, <1>11, <1>12, <1>13 DEF Next, Step

(***************************************************************************)
(* Every step of a thread keeps that thread settled; it does not touch     *)
(* the others.                                                             *)
(***************************************************************************)
LEMMA ArriveSettles ==
    ASSUME TypeOK, NEW th \in Threads, Settled(th), Arrive(th)
    PROVE  Settled(th)' /\ \A x \in Threads \ {th} : Settled(x) => Settled(x)'
<1>. USE ContextAssumption DEF TypeOK, MaybeOrgs, Kinds, Settled, Plain, Task, MayEnter, ApiOrg, RequestOrg, Resolve, Arrive, SetContext, GoTo
<1>1. Fresh(th)'
    BY DEF Fresh, Entitled, Worker, Bounded
<1>2. Entitled(th)'
    BY DEF Fresh, Entitled, Worker, Bounded
<1>3. Worker(th)'
    BY DEF Fresh, Entitled, Worker, Bounded
<1>4. Bounded(th)'
    BY DEF Fresh, Entitled, Worker, Bounded
<1>5. ASSUME NEW x \in Threads \ {th}, Settled(x) PROVE Settled(x)'
    BY <1>5 DEF Fresh, Entitled, Worker, Bounded
<1>. QED BY <1>1, <1>2, <1>3, <1>4, <1>5

LEMMA WebDispatchSettles ==
    ASSUME TypeOK, NEW th \in Threads, Settled(th), WebDispatch(th)
    PROVE  Settled(th)' /\ \A x \in Threads \ {th} : Settled(x) => Settled(x)'
<1>. USE ContextAssumption DEF TypeOK, MaybeOrgs, Kinds, Settled, Plain, Task, MayEnter, ApiOrg, RequestOrg, Resolve, WebDispatch, Found, GoTo
<1>1. Fresh(th)'
    BY DEF Fresh, Entitled, Worker, Bounded
<1>2. Entitled(th)'
    BY DEF Fresh, Entitled, Worker, Bounded
<1>3. Worker(th)'
    BY DEF Fresh, Entitled, Worker, Bounded
<1>4. Bounded(th)'
    BY DEF Fresh, Entitled, Worker, Bounded
<1>5. ASSUME NEW x \in Threads \ {th}, Settled(x) PROVE Settled(x)'
    BY <1>5 DEF Fresh, Entitled, Worker, Bounded
<1>. QED BY <1>1, <1>2, <1>3, <1>4, <1>5

LEMMA ApiDispatchSettles ==
    ASSUME TypeOK, NEW th \in Threads, Settled(th), ApiDispatch(th)
    PROVE  Settled(th)' /\ \A x \in Threads \ {th} : Settled(x) => Settled(x)'
<1>. USE ContextAssumption DEF TypeOK, MaybeOrgs, Kinds, Settled, Plain, Task, MayEnter, ApiOrg, RequestOrg, Resolve, ApiDispatch, SetContext, GoTo
<1>1. Fresh(th)'
    BY DEF Fresh, Entitled, Worker, Bounded
<1>2. Entitled(th)'
    BY DEF Fresh, Entitled, Worker, Bounded
<1>3. Worker(th)'
    BY DEF Fresh, Entitled, Worker, Bounded
<1>4. Bounded(th)'
    BY DEF Fresh, Entitled, Worker, Bounded
<1>5. ASSUME NEW x \in Threads \ {th}, Settled(x) PROVE Settled(x)'
    BY <1>5 DEF Fresh, Entitled, Worker, Bounded
<1>. QED BY <1>1, <1>2, <1>3, <1>4, <1>5

LEMMA SetInViewSettles ==
    ASSUME TypeOK, NEW th \in Threads, Settled(th), SetInView(th)
    PROVE  Settled(th)' /\ \A x \in Threads \ {th} : Settled(x) => Settled(x)'
<1>. USE ContextAssumption DEF TypeOK, MaybeOrgs, Kinds, Settled, Plain, Task, MayEnter, ApiOrg, RequestOrg, Resolve, SetInView, SetContext
<1>1. Fresh(th)'
    BY DEF Fresh, Entitled, Worker, Bounded
<1>2. Entitled(th)'
    BY DEF Fresh, Entitled, Worker, Bounded
<1>3. Worker(th)'
    BY DEF Fresh, Entitled, Worker, Bounded
<1>4. Bounded(th)'
    BY DEF Fresh, Entitled, Worker, Bounded
<1>5. ASSUME NEW x \in Threads \ {th}, Settled(x) PROVE Settled(x)'
    BY <1>5 DEF Fresh, Entitled, Worker, Bounded
<1>. QED BY <1>1, <1>2, <1>3, <1>4, <1>5

LEMMA StartTaskSettles ==
    ASSUME TypeOK, NEW th \in Threads, Settled(th), StartTask(th)
    PROVE  Settled(th)' /\ \A x \in Threads \ {th} : Settled(x) => Settled(x)'
<1>. USE ContextAssumption DEF TypeOK, MaybeOrgs, Kinds, Settled, Plain, Task, MayEnter, ApiOrg, RequestOrg, Resolve, StartTask, SetContext, GoTo
<1>1. Fresh(th)'
    BY DEF Fresh, Entitled, Worker, Bounded
<1>2. Entitled(th)'
    BY DEF Fresh, Entitled, Worker, Bounded
<1>3. Worker(th)'
    BY DEF Fresh, Entitled, Worker, Bounded
<1>4. Bounded(th)'
    BY DEF Fresh, Entitled, Worker, Bounded
<1>5. ASSUME NEW x \in Threads \ {th}, Settled(x) PROVE Settled(x)'
    BY <1>5 DEF Fresh, Entitled, Worker, Bounded
<1>. QED BY <1>1, <1>2, <1>3, <1>4, <1>5

LEMMA ReadFilteredSettles ==
    ASSUME TypeOK, NEW th \in Threads, Settled(th), ReadFiltered(th)
    PROVE  Settled(th)' /\ \A x \in Threads \ {th} : Settled(x) => Settled(x)'
<1>. USE ContextAssumption DEF TypeOK, MaybeOrgs, Kinds, Settled, Plain, Task, MayEnter, ApiOrg, RequestOrg, Resolve, ReadFiltered, Record, Visible
<1>1. Fresh(th)'
    BY DEF Fresh, Entitled, Worker, Bounded
<1>2. Entitled(th)'
    BY DEF Fresh, Entitled, Worker, Bounded
<1>3. Worker(th)'
    BY DEF Fresh, Entitled, Worker, Bounded
<1>4. Bounded(th)'
    BY DEF Fresh, Entitled, Worker, Bounded
<1>5. ASSUME NEW x \in Threads \ {th}, Settled(x) PROVE Settled(x)'
    BY <1>5 DEF Fresh, Entitled, Worker, Bounded
<1>. QED BY <1>1, <1>2, <1>3, <1>4, <1>5

LEMMA ReadByContextSettles ==
    ASSUME TypeOK, NEW th \in Threads, Settled(th), ReadByContext(th)
    PROVE  Settled(th)' /\ \A x \in Threads \ {th} : Settled(x) => Settled(x)'
<1>. USE ContextAssumption DEF TypeOK, MaybeOrgs, Kinds, Settled, Plain, Task, MayEnter, ApiOrg, RequestOrg, Resolve, ReadByContext, Record, Visible
<1>1. Fresh(th)'
    BY DEF Fresh, Entitled, Worker, Bounded
<1>2. Entitled(th)'
    BY DEF Fresh, Entitled, Worker, Bounded
<1>3. Worker(th)'
    BY DEF Fresh, Entitled, Worker, Bounded
<1>4. Bounded(th)'
    BY DEF Fresh, Entitled, Worker, Bounded
<1>5. ASSUME NEW x \in Threads \ {th}, Settled(x) PROVE Settled(x)'
    BY <1>5 DEF Fresh, Entitled, Worker, Bounded
<1>. QED BY <1>1, <1>2, <1>3, <1>4, <1>5

LEMMA ReadUnfilteredSettles ==
    ASSUME TypeOK, NEW th \in Threads, Settled(th), ReadUnfiltered(th)
    PROVE  Settled(th)' /\ \A x \in Threads \ {th} : Settled(x) => Settled(x)'
<1>. USE ContextAssumption DEF TypeOK, MaybeOrgs, Kinds, Settled, Plain, Task, MayEnter, ApiOrg, RequestOrg, Resolve, ReadUnfiltered, Record
<1>1. Fresh(th)'
    BY DEF Fresh, Entitled, Worker, Bounded
<1>2. Entitled(th)'
    BY DEF Fresh, Entitled, Worker, Bounded
<1>3. Worker(th)'
    BY DEF Fresh, Entitled, Worker, Bounded
<1>4. Bounded(th)'
    BY DEF Fresh, Entitled, Worker, Bounded
<1>5. ASSUME NEW x \in Threads \ {th}, Settled(x) PROVE Settled(x)'
    BY <1>5 DEF Fresh, Entitled, Worker, Bounded
<1>. QED BY <1>1, <1>2, <1>3, <1>4, <1>5

LEMMA EnterManagerSettles ==
    ASSUME TypeOK, NEW th \in Threads, Settled(th), EnterManager(th)
    PROVE  Settled(th)' /\ \A x \in Threads \ {th} : Settled(x) => Settled(x)'
<1>. USE ContextAssumption DEF TypeOK, MaybeOrgs, Kinds, Settled, Plain, Task, MayEnter, ApiOrg, RequestOrg, Resolve, EnterManager, SetContext, GoTo
<1>1. Fresh(th)'
    BY DEF Fresh, Entitled, Worker, Bounded
<1>2. Entitled(th)'
    BY DEF Fresh, Entitled, Worker, Bounded
<1>3. Worker(th)'
    BY DEF Fresh, Entitled, Worker, Bounded
<1>4. Bounded(th)'
    BY DEF Fresh, Entitled, Worker, Bounded
<1>5. ASSUME NEW x \in Threads \ {th}, Settled(x) PROVE Settled(x)'
    BY <1>5 DEF Fresh, Entitled, Worker, Bounded
<1>. QED BY <1>1, <1>2, <1>3, <1>4, <1>5

LEMMA ExitManagerSettles ==
    ASSUME TypeOK, NEW th \in Threads, Settled(th), ExitManager(th)
    PROVE  Settled(th)' /\ \A x \in Threads \ {th} : Settled(x) => Settled(x)'
<1>. USE ContextAssumption DEF TypeOK, MaybeOrgs, Kinds, Settled, Plain, Task, MayEnter, ApiOrg, RequestOrg, Resolve, ExitManager, Restore, SetContext, GoTo
<1>1. Fresh(th)'
    BY DEF Fresh, Entitled, Worker, Bounded
<1>2. Entitled(th)'
    BY DEF Fresh, Entitled, Worker, Bounded
<1>3. Worker(th)'
    BY DEF Fresh, Entitled, Worker, Bounded
<1>4. Bounded(th)'
    BY DEF Fresh, Entitled, Worker, Bounded
<1>5. ASSUME NEW x \in Threads \ {th}, Settled(x) PROVE Settled(x)'
    BY <1>5 DEF Fresh, Entitled, Worker, Bounded
<1>. QED BY <1>1, <1>2, <1>3, <1>4, <1>5

LEMMA LeaveSettles ==
    ASSUME TypeOK, NEW th \in Threads, Settled(th), Leave(th)
    PROVE  Settled(th)' /\ \A x \in Threads \ {th} : Settled(x) => Settled(x)'
<1>. USE ContextAssumption DEF TypeOK, MaybeOrgs, Kinds, Settled, Plain, Task, MayEnter, ApiOrg, RequestOrg, Resolve, Leave, GoTo
<1>1. Fresh(th)'
    BY DEF Fresh, Entitled, Worker, Bounded
<1>2. Entitled(th)'
    BY DEF Fresh, Entitled, Worker, Bounded
<1>3. Worker(th)'
    BY DEF Fresh, Entitled, Worker, Bounded
<1>4. Bounded(th)'
    BY DEF Fresh, Entitled, Worker, Bounded
<1>5. ASSUME NEW x \in Threads \ {th}, Settled(x) PROVE Settled(x)'
    BY <1>5 DEF Fresh, Entitled, Worker, Bounded
<1>. QED BY <1>1, <1>2, <1>3, <1>4, <1>5

LEMMA FinishSettles ==
    ASSUME TypeOK, NEW th \in Threads, Settled(th), Finish(th)
    PROVE  Settled(th)' /\ \A x \in Threads \ {th} : Settled(x) => Settled(x)'
<1>. USE ContextAssumption DEF TypeOK, MaybeOrgs, Kinds, Settled, Plain, Task, MayEnter, ApiOrg, RequestOrg, Resolve, Finish, Clear, SetContext, GoTo
<1>1. Fresh(th)'
    BY DEF Fresh, Entitled, Worker, Bounded
<1>2. Entitled(th)'
    BY DEF Fresh, Entitled, Worker, Bounded
<1>3. Worker(th)'
    BY DEF Fresh, Entitled, Worker, Bounded
<1>4. Bounded(th)'
    BY DEF Fresh, Entitled, Worker, Bounded
<1>5. ASSUME NEW x \in Threads \ {th}, Settled(x) PROVE Settled(x)'
    BY <1>5 DEF Fresh, Entitled, Worker, Bounded
<1>. QED BY <1>1, <1>2, <1>3, <1>4, <1>5

(* Settled threads stay settled.                                            *)
LEMMA SettledStep == CInv /\ [Next]_vars => CInv'
<1>. SUFFICES ASSUME CInv, [Next]_vars PROVE CInv'
    OBVIOUS
<1>1. TypeOK'
    BY TypeStep
<1>2. ASSUME NEW th \in Threads, Step(th) PROVE \A x \in Threads : Settled(x)'
    <2>1. Settled(th)' /\ \A x \in Threads \ {th} : Settled(x) => Settled(x)'
        BY <1>2, ArriveSettles, WebDispatchSettles, ApiDispatchSettles, SetInViewSettles, StartTaskSettles, ReadFilteredSettles, ReadByContextSettles, ReadUnfilteredSettles, EnterManagerSettles, ExitManagerSettles, LeaveSettles, FinishSettles DEF Step, CInv
    <2>. QED BY <2>1 DEF CInv
<1>3. ASSUME UNCHANGED vars PROVE \A x \in Threads : Settled(x)'
    BY <1>3 DEF vars, CInv, Settled, Fresh, Entitled, Worker, Bounded, Plain, Task, MayEnter, ApiOrg, RequestOrg, Resolve
<1>. QED BY <1>1, <1>2, <1>3 DEF Next, CInv

(* In the beginning every thread is settled.                                *)
LEMMA InitSettled == Init => CInv
<1>. SUFFICES ASSUME Init PROVE CInv
    OBVIOUS
<1>1. TypeOK
    BY ContextAssumption DEF Init, TypeOK, MaybeOrgs, Kinds
<1>2. ASSUME NEW th \in Threads PROVE Settled(th)
    BY <1>2 DEF Init, Settled, Fresh, Entitled, Worker, Bounded, Plain, Task
<1>. QED BY <1>1, <1>2 DEF CInv

(* Every reachable state has settled threads.                               *)
THEOREM SettledAlways == Spec => []CInv
<1>. QED BY InitSettled, SettledStep, PTL DEF Spec

(* Every variable keeps its type.                                           *)
THEOREM TypeCorrect == Spec => []TypeOK
<1>1. CInv => TypeOK
    BY DEF CInv
<1>. QED BY <1>1, SettledAlways, PTL

(* No job leaves its organization to the next one of its thread, and a task *)
(* without a context of its own has none.                                   *)
THEOREM CleanThreads == Spec => []CleanBetweenJobs
<1>1. CInv => CleanBetweenJobs
    BY DEF CInv, Settled, Fresh, Worker, CleanBetweenJobs
<1>. QED BY <1>1, SettledAlways, PTL

(* A browser's request, an API call and a task read the rows of one         *)
(* organization, the one their user belongs to or a superuser named,        *)
(* whether the view takes the slug's organization or the request's.         *)
THEOREM OwnRowsOnly == Spec => []ReadsOwnOrg
<1>1. ASSUME CInv, NEW th \in Threads, pc[th] = "view", Plain(th),
             user[th] \notin Superusers
      PROVE  user[th] \in Users /\ tenant[th] = OrgOf[user[th]]
    <2>1. CASE kind[th] = "api"
        BY <1>1, <2>1 DEF CInv, Settled, Entitled, ApiOrg
    <2>2. CASE kind[th] = "web" /\ header[th] \notin Orgs
        BY <1>1, <2>2 DEF CInv, Settled, Entitled, MayEnter, RequestOrg, Resolve
    <2>. QED BY <1>1, <2>1, <2>2 DEF Plain
<1>2. ASSUME CInv, NEW th \in Threads, Plain(th) \/ kind[th] \notin {"web", "api"}
      PROVE  reads[th] \subseteq {tenant[th]}
    BY <1>2 DEF CInv, TypeOK, Kinds, Settled, Bounded, Task
<1>3. CInv => ReadsOwnOrg
    BY <1>1, <1>2 DEF ReadsOwnOrg
<1>. QED BY <1>3, SettledAlways, PTL

(* A view keeps the context of its organization to its end.                 *)
THEOREM ContextKept == Spec => []ViewKeepsContext
<1>1. CInv => ViewKeepsContext
    BY DEF CInv, Settled, Entitled, ViewKeepsContext, Plain
<1>. QED BY <1>1, SettledAlways, PTL

=============================================================================
