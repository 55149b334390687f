-------------------------------- MODULE Tenants --------------------------------
(***************************************************************************)
(* What registration promises: every user gets an organization of its own  *)
(* under a slug of its own.  Neither is ever taken away or given to        *)
(* somebody else, and whoever has been told of success can log in.         *)
(***************************************************************************)
CONSTANTS Orgs,     \* ids of organizations
          Emails,   \* addresses, each a user to be
          Slug,     \* what organizations are called in addresses
          None      \* no slug, no organization

VARIABLES slugs,    \* slugs[o]: the slug of an organization, once it is founded
          home,     \* home[e]: the organization of a user
          active,   \* the users that can log in
          told      \* the users that have been told so

vars == <<slugs, home, active, told>>

Init ==
    /\ slugs = [o \in Orgs |-> None]
    /\ home = [e \in Emails |-> None]
    /\ active = {}
    /\ told = {}

\* An organization is founded under a slug no other one has.
Found(o, s) ==
    /\ slugs[o] = None
    /\ \A q \in Orgs: slugs[q] # s
    /\ slugs' = [slugs EXCEPT ![o] = s]
    /\ UNCHANGED <<home, active, told>>

\* A new user moves into an organization that stands empty.
MoveIn(e, o) ==
    /\ home[e] = None
    /\ slugs[o] # None
    /\ \A f \in Emails: home[f] # o
    /\ home' = [home EXCEPT ![e] = o]
    /\ UNCHANGED <<slugs, active, told>>

\* From now on the user can log in.
Activate(e) ==
    /\ home[e] # None /\ e \notin active
    /\ active' = active \cup {e}
    /\ UNCHANGED <<slugs, home, told>>

\* The registration is answered.
Confirm(e) ==
    /\ e \in active \ told
    /\ told' = told \cup {e}
    /\ UNCHANGED <<slugs, home, active>>

Next ==
    \/ \E o \in Orgs, s \in Slug: Found(o, s)
    \/ \E e \in Emails, o \in Orgs: MoveIn(e, o)
    \/ \E e \in Emails: Activate(e) \/ Confirm(e)

Spec == Init /\ [][Next]_vars

===============================================================================
