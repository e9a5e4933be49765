----------------------------- MODULE TenantContext -----------------------------
(***************************************************************************)
(* Which organization a thread works for (infrastructure/multitenancy,     *)
(* infrastructure/celery_utils.py), and which rows it can therefore read.  *)
(*                                                                         *)
(* The current organization is a ContextVar of the thread. A thread runs   *)
(* one job after another: a page of the dashboard, a call of the REST API, *)
(* or a Celery task. TenantManager, the default manager of every tenant    *)
(* model, filters by the current organization and finds nothing without    *)
(* one; all_objects does not filter.                                       *)
(*                                                                         *)
(* Operators named Mut... are plausible bugs of the operator that follows  *)
(* them; no specification uses them.                                       *)
(***************************************************************************)
EXTENDS FiniteSets

CONSTANTS
    Threads,
    Orgs,
    NoOrg,      \* no organization: no context, no header
    Unknown,    \* a header or a slug that names no organization
    Users,
    Anonymous,
    Superusers, \* the users who may work for every organization
    OrgOf       \* organization of every user, NoOrg for none

ASSUME ContextAssumption ==
    /\ NoOrg \notin Orgs /\ Unknown \notin Orgs /\ NoOrg # Unknown
    /\ Anonymous \notin Users /\ Superusers \subseteq Users
    /\ OrgOf \in [Users -> Orgs \cup {NoOrg}]

VARIABLES
    ctx,     \* the ContextVar of each thread
    pc,      \* "idle", "routed", "view", "service" (in a TenantContextManager), "leaving"
    kind,    \* "web", "api", or a task: "bare", "managed", "decorated"
    user,    \* who sent the request
    header,  \* its X-Org-ID
    slug,    \* its /dashboard/<slug>/
    tenant,  \* the organization the view or the task works for
    token,   \* what the manager it is in will restore
    reads    \* history: the organizations whose rows this job has read

vars == <<ctx, pc, kind, user, header, slug, tenant, token, reads>>

-----------------------------------------------------------------------------
MaybeOrgs == Orgs \cup {NoOrg}
Kinds     == {"web", "api", "bare", "managed", "decorated"}

\* Every variable keeps its type.
TypeOK ==
    /\ ctx \in [Threads -> MaybeOrgs]
    /\ pc \in [Threads -> {"idle", "routed", "view", "service", "leaving"}]
    /\ kind \in [Threads -> Kinds]
    /\ user \in [Threads -> Users \cup {Anonymous}]
    /\ header \in [Threads -> MaybeOrgs \cup {Unknown}]
    /\ slug \in [Threads -> MaybeOrgs \cup {Unknown}]
    /\ tenant \in [Threads -> MaybeOrgs]
    /\ token \in [Threads -> MaybeOrgs]
    /\ reads \in [Threads -> SUBSET Orgs]

Init ==
    /\ ctx = [th \in Threads |-> NoOrg]
    /\ pc = [th \in Threads |-> "idle"]
    /\ kind = [th \in Threads |-> "bare"]
    /\ user = [th \in Threads |-> Anonymous]
    /\ header = [th \in Threads |-> NoOrg] /\ slug = [th \in Threads |-> NoOrg]
    /\ tenant = [th \in Threads |-> NoOrg]
    /\ token = [th \in Threads |-> NoOrg]
    /\ reads = [th \in Threads |-> {}]

\* set_current_organization.
SetContext(th, o) == ctx' = [ctx EXCEPT ![th] = o]

GoTo(th, l) == pc' = [pc EXCEPT ![th] = l]

-----------------------------------------------------------------------------
(* Requests.                                                                *)

\* The middleware: header, then slug, then the session's user. An API call is
\* authenticated by its token, after the middleware.
Resolve(k, u, h, s) ==
    IF h \in Orgs THEN h
    ELSE IF s \in Orgs THEN s
    ELSE IF k = "web" /\ u \in Users THEN OrgOf[u] ELSE NoOrg

\* The context is set if an organization was found, and left alone if not.
Arrive(th) ==
    /\ pc[th] = "idle"
    /\ \E k \in {"web", "api"}, u \in Users \cup {Anonymous}, h \in MaybeOrgs \cup {Unknown} :
       \E s \in (IF k = "web" THEN Orgs \cup {Unknown} ELSE {NoOrg}) :
          /\ kind' = [kind EXCEPT ![th] = k]
          /\ user' = [user EXCEPT ![th] = u]
          /\ header' = [header EXCEPT ![th] = h]
          /\ slug' = [slug EXCEPT ![th] = s]
          /\ IF Resolve(k, u, h, s) # NoOrg THEN SetContext(th, Resolve(k, u, h, s))
                                            ELSE UNCHANGED ctx
    /\ GoTo(th, "routed")
    /\ UNCHANGED <<tenant, token, reads>>

\* tenant_access_required.
MayEnter(u, s) == u \in Users /\ (u \in Superusers \/ OrgOf[u] = s)

MutFound(s) == TRUE

\* get_object_or_404(Organization, slug=...)
Found(s) == s \in Orgs

\* request.organization, as the middleware left it.
RequestOrg(th) == Resolve(kind[th], user[th], header[th], slug[th])

\* The check compares the user's organization with the slug alone. Most views
\* then look their organization up by the slug; the detail and PDF views of an
\* order and the operations pages take request.organization, which may be None.
WebDispatch(th) ==
    /\ pc[th] = "routed" /\ kind[th] = "web"
    /\ \/ /\ MayEnter(user[th], slug[th])
          /\ \/ Found(slug[th]) /\ tenant' = [tenant EXCEPT ![th] = slug[th]]
             \/ tenant' = [tenant EXCEPT ![th] = RequestOrg(th)]
          /\ GoTo(th, "view")
       \/ /\ ~MayEnter(user[th], slug[th]) \/ ~Found(slug[th])
          /\ GoTo(th, "leaving") /\ UNCHANGED tenant
    /\ UNCHANGED <<ctx, kind, user, header, slug, token, reads>>

MutApiOrg(th) ==
    IF header[th] \in Orgs THEN header[th]
    ELSE IF user[th] \in Users THEN OrgOf[user[th]] ELSE NoOrg

\* TenantViewMixin.get_organization; NoOrg stands for its errors: a superuser
\* without the header of an organization, a user who has none.
ApiOrg(th) ==
    IF user[th] \in Superusers THEN (IF header[th] \in Orgs THEN header[th] ELSE NoOrg)
    ELSE IF user[th] \in Users THEN OrgOf[user[th]] ELSE NoOrg

\* TenantViewMixin.initial sets the context, over what the middleware found.
ApiDispatch(th) ==
    /\ pc[th] = "routed" /\ kind[th] = "api"
    /\ IF ApiOrg(th) # NoOrg
       THEN /\ SetContext(th, ApiOrg(th))
            /\ tenant' = [tenant EXCEPT ![th] = ApiOrg(th)]
            /\ GoTo(th, "view")
       ELSE GoTo(th, "leaving") /\ UNCHANGED <<ctx, tenant>>
    /\ UNCHANGED <<kind, user, header, slug, token, reads>>

\* The client and product views, which look the slug up, set the context
\* themselves.
SetInView(th) ==
    /\ pc[th] = "view" /\ kind[th] = "web" /\ tenant[th] = slug[th]
    /\ SetContext(th, tenant[th])
    /\ UNCHANGED <<pc, kind, user, header, slug, tenant, token, reads>>

-----------------------------------------------------------------------------
(* Celery tasks. "bare": reads with objects and sets no context              *)
(* (create_invoice_task, the reports, the return alert); "managed": finds    *)
(* its row with all_objects and opens a TenantContextManager (the payment    *)
(* and PDF tasks); "decorated": tenant_task.                                 *)

StartTask(th) ==
    /\ pc[th] = "idle"
    /\ \E k \in {"bare", "managed", "decorated"}, o \in Orgs :
          /\ kind' = [kind EXCEPT ![th] = k]
          /\ tenant' = [tenant EXCEPT ![th] = o]
          /\ IF k = "decorated" THEN SetContext(th, o) ELSE UNCHANGED ctx
    /\ GoTo(th, "view")
    /\ UNCHANGED <<user, header, slug, token, reads>>

-----------------------------------------------------------------------------
(* What a view or a task does.                                              *)

\* TenantManager.get_queryset: the organizations whose rows it returns.
Visible(th) == {ctx[th]} \ {NoOrg}

Record(th, S) == reads' = [reads EXCEPT ![th] = @ \cup S]

\* objects.filter(organization=tenant)
ReadFiltered(th) ==
    /\ pc[th] = "view" /\ kind[th] \in {"web", "api"}
    /\ Record(th, Visible(th) \cap {tenant[th]})
    /\ UNCHANGED <<ctx, pc, kind, user, header, slug, tenant, token>>

\* objects with no more than the context
ReadByContext(th) ==
    /\ pc[th] \in {"view", "service"}
    /\ Record(th, Visible(th))
    /\ UNCHANGED <<ctx, pc, kind, user, header, slug, tenant, token>>

\* all_objects.filter(organization=tenant), or all_objects by primary key
ReadUnfiltered(th) ==
    /\ pc[th] = "view" /\ kind[th] \in {"web", "bare", "managed"}
    /\ Record(th, {tenant[th]} \ {NoOrg})
    /\ UNCHANGED <<ctx, pc, kind, user, header, slug, tenant, token>>

\* with TenantContextManager(org): the organization of a row read before
EnterManager(th) ==
    /\ pc[th] = "view" /\ kind[th] \in {"web", "api", "managed"}
    /\ \E o \in reads[th] : SetContext(th, o)
    /\ token' = [token EXCEPT ![th] = ctx[th]]
    /\ GoTo(th, "service")
    /\ UNCHANGED <<kind, user, header, slug, tenant, reads>>

MutRestore(th) == SetContext(th, NoOrg)

\* TenantContextManager.__exit__ restores the context before it ...
Restore(th) == SetContext(th, token[th])

\* ... whether its block ends or raises.
ExitManager(th) ==
    /\ pc[th] = "service"
    /\ Restore(th)
    /\ token' = [token EXCEPT ![th] = NoOrg]
    /\ GoTo(th, "view") \/ GoTo(th, "leaving")
    /\ UNCHANGED <<kind, user, header, slug, tenant, reads>>

\* The view returns or raises; the task returns or raises.
Leave(th) ==
    /\ pc[th] = "view"
    /\ GoTo(th, "leaving")
    /\ UNCHANGED <<ctx, kind, user, header, slug, tenant, token, reads>>

MutClear(th) == UNCHANGED ctx

\* The middleware and tenant_task clear the context in a finally block; a task
\* of the other kinds leaves it as it is.
Clear(th) ==
    IF kind[th] \in {"web", "api", "decorated"} THEN SetContext(th, NoOrg) ELSE UNCHANGED ctx

Finish(th) ==
    /\ pc[th] = "leaving"
    /\ Clear(th)
    /\ GoTo(th, "idle")
    /\ kind' = [kind EXCEPT ![th] = "bare"]
    /\ user' = [user EXCEPT ![th] = Anonymous]
    /\ header' = [header EXCEPT ![th] = NoOrg] /\ slug' = [slug EXCEPT ![th] = NoOrg]
    /\ tenant' = [tenant EXCEPT ![th] = NoOrg]
    /\ reads' = [reads EXCEPT ![th] = {}]
    /\ UNCHANGED token

Step(th) ==
    \/ Arrive(th) \/ WebDispatch(th) \/ ApiDispatch(th) \/ SetInView(th) \/ StartTask(th)
    \/ ReadFiltered(th) \/ ReadByContext(th) \/ ReadUnfiltered(th)
    \/ EnterManager(th) \/ ExitManager(th) \/ Leave(th) \/ Finish(th)

Next == \E th \in Threads : Step(th)

Spec == Init /\ [][Next]_vars

-----------------------------------------------------------------------------
(* Properties.                                                              *)

\* No job leaves its organization to the next job of its thread, however it
\* ended, and a task that opens no context of its own has none: it reads no
\* tenant's rows through objects, not even those of its own order.
CleanBetweenJobs ==
    \A th \in Threads : (pc[th] = "idle" \/ kind[th] = "bare") => ctx[th] = NoOrg

\* A browser's request, which has no X-Org-ID header, and every call of the API.
Plain(th) == kind[th] = "api" \/ (kind[th] = "web" /\ header[th] \notin Orgs)

\* Such a request works for one organization, the one of its user or, for a
\* superuser, the one he named, whichever of the two look-ups its view uses;
\* and it reads that organization's rows only, as a task does. (With the header
\* of another organization the check still passes by the slug, and the pages
\* that take request.organization work for the header's.)
ReadsOwnOrg ==
    \A th \in Threads :
        /\ (pc[th] = "view" /\ Plain(th) /\ user[th] \notin Superusers)
                => user[th] \in Users /\ tenant[th] = OrgOf[user[th]]
        /\ (Plain(th) \/ kind[th] \notin {"web", "api"}) => reads[th] \subseteq {tenant[th]}

\* Its view works in the context of its organization to the end, also after a
\* service that opened and closed a context of its own.
ViewKeepsContext ==
    \A th \in Threads : (pc[th] = "view" /\ Plain(th)) => ctx[th] = tenant[th]

=============================================================================
