------------------------------ MODULE Registration ------------------------------
(***************************************************************************)
(* RegisterUser of internal/usecase/auth_usecase.go: an organization, a    *)
(* user and the mapping between them are written by three statements       *)
(* without a transaction, after two reads that decide about the e-mail     *)
(* address and the slug.  The handler answers after two more reads.        *)
(***************************************************************************)
EXTENDS Naturals, FiniteSets

CONSTANTS Orgs,         \* ids of organizations (random UUIDs, never drawn twice)
          Emails,       \* normalized addresses, each a user to be
          Names,        \* slugs a company name gives
          Suffixes,     \* what a taken slug may be extended by
          Procs,        \* concurrent requests
          MaxFaults,    \* bound on the statements that return an error
          MaxRequests,  \* bound on the requests that are served
          None

Slug == Names \X (Suffixes \cup {None})

ASSUME RegistrationAssumption ==
    /\ IsFiniteSet(Procs) /\ Procs # {}
    /\ IsFiniteSet(Emails)
    /\ MaxFaults \in Nat /\ MaxRequests \in Nat
    /\ None \notin Orgs \cup Emails \cup Suffixes \cup Slug

VARIABLES orgs,      \* the table organizations: the slug of each
          users,     \* the table users: the organization each address belongs to
          members,   \* the table organization_users
          reg,       \* the registration each process is serving
          begun,     \* the number of requests so far
          faults,    \* the number of failed statements so far
          answered   \* history: addresses whose registration was answered 201

regTables == <<orgs, users, members>>
regVars == <<regTables, reg, begun, faults, answered>>

Registering == [pc: {"idle", "slug", "org", "user", "member", "answer"},
                email: Emails \cup {None},
                slug: Slug \cup {None},
                org: Orgs \cup {None}]

NoRegistration == [pc |-> "idle", email |-> None, slug |-> None, org |-> None]

RegInit ==
    /\ orgs = [o \in Orgs |-> None]
    /\ users = [e \in Emails |-> None]
    /\ members = {}
    /\ reg = [p \in Procs |-> NoRegistration]
    /\ begun = 0 /\ faults = 0
    /\ answered = {}

-------------------------------------------------------------------------------

Advance(p, r) == reg' = [reg EXCEPT ![p] = r]

Drop(p) == Advance(p, NoRegistration)

\* The statement the process has come to returns an error.
RegFails(p) ==
    /\ faults < MaxFaults
    /\ faults' = faults + 1
    /\ Drop(p)
    /\ UNCHANGED <<regTables, begun, answered>>

Taken(slug) == \E o \in Orgs: orgs[o] = slug

\* GetByEmail: a known address is refused at once.
CheckEmail(p, e, n) ==
    /\ reg[p].pc = "idle" /\ begun < MaxRequests
    /\ users[e] = None
    /\ begun' = begun + 1
    /\ Advance(p, [NoRegistration EXCEPT !.pc = "slug", !.email = e, !.slug = <<n, None>>])
    /\ UNCHANGED <<regTables, faults, answered>>

\* GetBySlug: a taken slug is extended at random; an error passes for a free one.
LookUpSlug(p) ==
    LET plain == reg[p].slug IN
    /\ reg[p].pc = "slug"
    /\ \/ /\ Taken(plain)
          /\ \E s \in Suffixes: Advance(p, [reg[p] EXCEPT !.pc = "org", !.slug = <<plain[1], s>>])
          /\ UNCHANGED faults
       \/ /\ \/ ~Taken(plain) /\ UNCHANGED faults
             \/ Taken(plain) /\ faults < MaxFaults /\ faults' = faults + 1
          /\ Advance(p, [reg[p] EXCEPT !.pc = "org"])
    /\ UNCHANGED <<regTables, begun, answered>>

\* Mutant: who finds the slug taken after all joins the organization that has it.
InsertOrgOrJoin(p, o) ==
    /\ reg[p].pc = "org"
    /\ IF Taken(reg[p].slug) THEN orgs[o] = reg[p].slug ELSE orgs[o] = None
    /\ orgs' = [orgs EXCEPT ![o] = reg[p].slug]
    /\ Advance(p, [reg[p] EXCEPT !.pc = "user", !.org = o])
    /\ UNCHANGED <<users, members, begun, faults, answered>>

\* orgRepo.Create under an id of its own: the slug is unique.
InsertOrg(p, o) ==
    /\ reg[p].pc = "org"
    /\ orgs[o] = None /\ ~Taken(reg[p].slug)
    /\ orgs' = [orgs EXCEPT ![o] = reg[p].slug]
    /\ Advance(p, [reg[p] EXCEPT !.pc = "user", !.org = o])
    /\ UNCHANGED <<users, members, begun, faults, answered>>

OrgRefused(p) ==
    /\ reg[p].pc = "org" /\ Taken(reg[p].slug)
    /\ Drop(p)
    /\ UNCHANGED <<regTables, begun, faults, answered>>

\* Mutant: the mapping is left for later.
InsertUserOnly(p) ==
    LET r == reg[p] IN
    /\ r.pc = "user"
    /\ \/ /\ users[r.email] = None
          /\ users' = [users EXCEPT ![r.email] = r.org]
          /\ Advance(p, [r EXCEPT !.pc = "answer"])
       \/ /\ users[r.email] # None
          /\ Drop(p) /\ UNCHANGED users
    /\ UNCHANGED <<orgs, members, begun, faults, answered>>

\* userRepo.Create: the address is unique; the organization is not removed.
InsertUser(p) ==
    LET r == reg[p] IN
    /\ r.pc = "user"
    /\ \/ /\ users[r.email] = None
          /\ users' = [users EXCEPT ![r.email] = r.org]
          /\ Advance(p, [r EXCEPT !.pc = "member"])
       \/ /\ users[r.email] # None
          /\ Drop(p) /\ UNCHANGED users
    /\ UNCHANGED <<orgs, members, begun, faults, answered>>

\* CreateOrganizationUser
InsertMember(p) ==
    LET r == reg[p] IN
    /\ r.pc = "member"
    /\ members' = members \cup {<<r.org, r.email>>}
    /\ Advance(p, [r EXCEPT !.pc = "answer"])
    /\ UNCHANGED <<orgs, users, begun, faults, answered>>

\* Mutant: the error of CreateOrganizationUser is dropped.
RegFailBeforeMember(p) ==
    /\ reg[p].pc \in {"org", "user", "member", "answer"}
    /\ faults < MaxFaults
    /\ faults' = faults + 1
    /\ IF reg[p].pc = "member" THEN Advance(p, [reg[p] EXCEPT !.pc = "answer"]) ELSE Drop(p)
    /\ UNCHANGED <<regTables, begun, answered>>

\* The first read, an INSERT, or a read before the answer fails: the request
\* ends, and what it has written stays.
RegFail(p) ==
    /\ reg[p].pc \in {"org", "user", "member", "answer"}
    /\ RegFails(p)

\* GetPermissionsByRole and the handler's GetOrganizationByID have succeeded.
Answer(p) ==
    /\ reg[p].pc = "answer"
    /\ answered' = answered \cup {reg[p].email}
    /\ Drop(p)
    /\ UNCHANGED <<regTables, begun, faults>>

RegStep(p) ==
    \/ \E e \in Emails, n \in Names: CheckEmail(p, e, n)
    \/ LookUpSlug(p)
    \/ \E o \in Orgs: InsertOrg(p, o)
    \/ OrgRefused(p) \/ InsertUser(p) \/ InsertMember(p)
    \/ RegFail(p) \/ Answer(p)

RegNext == \E p \in Procs: RegStep(p)

RegSpec == RegInit /\ [][RegNext]_regVars

-------------------------------------------------------------------------------

\* LoginUser finds the address and its mapping; without one it refuses:
\* "unauthorized: no active organization association found".
CanLogin(e) == users[e] # None /\ <<users[e], e>> \in members

RegTypeOK ==
    /\ orgs \in [Orgs -> Slug \cup {None}]
    /\ users \in [Emails -> Orgs \cup {None}]
    /\ members \subseteq Orgs \X Emails
    /\ reg \in [Procs -> Registering]
    /\ begun \in Nat /\ faults \in Nat
    /\ answered \subseteq Emails

(***************************************************************************)
(* A registration that was answered 201 can log in, whatever else was      *)
(* registered or failed at the same time.                                  *)
(***************************************************************************)
AnsweredCanLogin == \A e \in answered: CanLogin(e)

(***************************************************************************)
(* Every row of the application is filtered by organization.  However the  *)
(* slug look-ups and the INSERTs of registrations interleave, two users    *)
(* never share an organization, two organizations never share a slug, and  *)
(* a mapping leads to the organization the user row names.                 *)
(***************************************************************************)
TenantsAreSeparate ==
    /\ \A e, f \in Emails: users[e] # None /\ users[e] = users[f] => e = f
    /\ \A o, q \in Orgs: orgs[o] # None /\ orgs[o] = orgs[q] => o = q
    /\ \A m \in members: users[m[2]] = m[1]

\* An address that is taken, cannot log in, and whose mapping nobody will write.
LockedOut ==
    {e \in Emails: /\ users[e] # None /\ ~CanLogin(e)
                   /\ \A p \in Procs: ~(reg[p].pc = "member" /\ reg[p].email = e)}

(***************************************************************************)
(* A registration that stops half way leaves an address that can neither   *)
(* log in nor be registered again.  That takes a failed statement each     *)
(* time; a lost race for the slug or the address never locks anyone out.   *)
(***************************************************************************)
LockoutsTakeFaults == Cardinality(LockedOut) <= faults

Promised == INSTANCE Tenants WITH
    slugs  <- orgs,
    home   <- users,
    active <- {e \in Emails: CanLogin(e)},
    told   <- answered

(***************************************************************************)
(* The statements of overlapping, failing registrations add up to atomic   *)
(* steps of Tenants: an organization is founded once and under a free      *)
(* slug, a user moves into one that stands empty and stays there, a login  *)
(* once possible remains so, and only those are told who can log in.       *)
(***************************************************************************)
ImplementsTenants == Promised!Spec
===============================================================================
