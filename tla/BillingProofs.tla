----------------------------- MODULE BillingProofs -----------------------------
(***************************************************************************)
(* Proofs about Billing over Registration, for every number of             *)
(* organizations, addresses and concurrent requests and every plan.        *)
(*                                                                         *)
(* The registrations come first.  Their invariant speaks of the tables and *)
(* processes of Registration alone, so that it is enough that a step of    *)
(* Billing leaves these as they are (RegFrame).                            *)
(***************************************************************************)
EXTENDS Billing, FiniteSetTheorems, TLAPS

\* A registration under way knows what it is about to write.
RegShape ==
    \A p \in Procs:
        /\ reg[p].pc # "idle" => reg[p].email \in Emails /\ reg[p].slug \in Slug
        /\ reg[p].pc \in {"user", "member", "answer"} => reg[p].org \in Orgs

\* A user's organization exists.
UsersHaveOrgs == \A e \in Emails: users[e] # None => orgs[users[e]] # None

\* Between its INSERTs a registration is alone with the organization it made.
OwnOrg ==
    \A p \in Procs: reg[p].pc = "user" =>
        /\ orgs[reg[p].org] # None
        /\ \A e \in Emails: users[e] # reg[p].org
        /\ \A q \in Procs: reg[q].pc = "user" /\ reg[q].org = reg[p].org => q = p

\* What a registration has written is there.
OwnRows ==
    \A p \in Procs:
        /\ reg[p].pc = "member" => users[reg[p].email] = reg[p].org
        /\ reg[p].pc = "answer" => CanLogin(reg[p].email)

RegInv ==
    /\ RegTypeOK
    /\ RegShape
    /\ UsersHaveOrgs
    /\ OwnOrg
    /\ OwnRows
    /\ AnsweredCanLogin
    /\ TenantsAreSeparate
    /\ LockoutsTakeFaults

-------------------------------------------------------------------------------

LEMMA LockedOutIsFinite ==
    /\ IsFiniteSet(LockedOut) /\ Cardinality(LockedOut) \in Nat
    /\ IsFiniteSet(LockedOut') /\ Cardinality(LockedOut') \in Nat
<1>1. LockedOut \in SUBSET Emails /\ LockedOut' \in SUBSET Emails
  BY DEF LockedOut
<1>2. IsFiniteSet(LockedOut) /\ IsFiniteSet(LockedOut')
  BY <1>1, RegistrationAssumption, FS_Subset
<1> QED
  BY <1>2, FS_CardinalityType

LEMMA RegInitInv == RegInit => RegInv
<1> SUFFICES ASSUME RegInit PROVE RegInv
  OBVIOUS
<1> USE RegistrationAssumption DEF RegInit, NoRegistration
<1>1. RegTypeOK
  BY DEF RegTypeOK, Registering
<1>2. RegShape /\ UsersHaveOrgs /\ OwnOrg /\ OwnRows /\ AnsweredCanLogin
  BY DEF RegShape, UsersHaveOrgs, OwnOrg, OwnRows, AnsweredCanLogin
<1>3. TenantsAreSeparate
  BY DEF TenantsAreSeparate
<1>4. LockoutsTakeFaults
  <2>1. LockedOut = {}
    BY DEF LockedOut
  <2> QED
    BY <2>1, FS_EmptySet DEF LockoutsTakeFaults
<1> QED
  BY <1>1, <1>2, <1>3, <1>4 DEF RegInv

\* A step that leaves tables and registrations alone, and forgets no failure.
LEMMA RegFrame ==
    ASSUME RegInv, UNCHANGED <<regTables, reg, answered>>,
           begun' \in Nat, faults' \in Nat, faults <= faults'
    PROVE  RegInv'
<1> USE DEF regTables
<1>1. RegTypeOK'
  BY DEF RegInv, RegTypeOK
<1>2. RegShape' /\ UsersHaveOrgs' /\ OwnOrg'
  BY DEF RegInv, RegShape, UsersHaveOrgs, OwnOrg
<1>3. OwnRows' /\ AnsweredCanLogin' /\ TenantsAreSeparate'
  BY DEF RegInv, OwnRows, AnsweredCanLogin, TenantsAreSeparate, CanLogin
<1>4. LockoutsTakeFaults'
  <2>1. LockedOut' = LockedOut
    BY DEF LockedOut, CanLogin
  <2>2. faults \in Nat
    BY DEF RegInv, RegTypeOK
  <2> QED
    BY <2>1, <2>2, LockedOutIsFinite DEF RegInv, LockoutsTakeFaults
<1> QED
  BY <1>1, <1>2, <1>3, <1>4 DEF RegInv

\* A registration writes no table: it moves on or ends.
MovesTo(p, r) ==
    /\ r \in Registering
    /\ reg' = [reg EXCEPT ![p] = r]
    /\ UNCHANGED regTables
    /\ begun' \in Nat /\ faults' \in Nat /\ faults <= faults'
    /\ r.pc # "idle" => r.email \in Emails /\ r.slug \in Slug
    /\ r.pc \in {"idle", "slug", "org"}
    /\ \/ answered' = answered
       \/ reg[p].pc = "answer" /\ answered' = answered \cup {reg[p].email}
    /\ reg[p].pc = "member" => faults' >= faults + 1

LEMMA RegMove ==
    ASSUME RegInv, NEW p \in Procs, NEW r, MovesTo(p, r)
    PROVE  RegInv'
<1> USE DEF regTables, MovesTo
<1>1. RegTypeOK'
  BY DEF RegInv, RegTypeOK, RegShape
<1>2. \A q \in Procs: q # p => reg'[q] = reg[q]
  BY DEF RegInv, RegTypeOK
<1>3. reg'[p] = r
  BY DEF RegInv, RegTypeOK
<1>4. RegShape' /\ UsersHaveOrgs'
  BY <1>2, <1>3 DEF RegInv, RegShape, UsersHaveOrgs
<1>5. OwnOrg'
  BY <1>2, <1>3 DEF RegInv, OwnOrg
<1>6. OwnRows' /\ TenantsAreSeparate'
  BY <1>2, <1>3 DEF RegInv, OwnRows, TenantsAreSeparate, CanLogin
<1>7. AnsweredCanLogin'
  BY DEF RegInv, OwnRows, AnsweredCanLogin, CanLogin
<1>8. LockoutsTakeFaults'
  <2>1. Cardinality(LockedOut) <= faults /\ faults \in Nat
    BY DEF RegInv, RegTypeOK, LockoutsTakeFaults
  <2>2. CASE reg[p].pc = "member"
    <3>1. LockedOut' \in SUBSET (LockedOut \cup {reg[p].email})
      BY <1>2, <1>3 DEF LockedOut, CanLogin
    <3>2. /\ IsFiniteSet(LockedOut \cup {reg[p].email})
          /\ Cardinality(LockedOut \cup {reg[p].email})
               = IF reg[p].email \in LockedOut THEN Cardinality(LockedOut)
                                               ELSE Cardinality(LockedOut) + 1
      BY LockedOutIsFinite, FS_AddElement, Zenon
    <3>3. Cardinality(LockedOut') <= Cardinality(LockedOut \cup {reg[p].email})
      BY <3>1, <3>2, FS_Subset
    <3> QED
      BY <2>1, <2>2, <3>2, <3>3, LockedOutIsFinite DEF LockoutsTakeFaults
  <2>3. CASE reg[p].pc # "member"
    <3>1. LockedOut' = LockedOut
      BY <1>2, <1>3, <2>3 DEF LockedOut, CanLogin
    <3> QED
      BY <2>1, <3>1, LockedOutIsFinite DEF LockoutsTakeFaults
  <2> QED
    BY <2>2, <2>3
<1> QED
  BY <1>1, <1>4, <1>5, <1>6, <1>7, <1>8 DEF RegInv

\* The organization is new: nobody else has its id or its slug.
LEMMA InsertOrgKeepsRegInv ==
    ASSUME RegInv, NEW p \in Procs, NEW o \in Orgs, InsertOrg(p, o)
    PROVE  RegInv'
<1> USE RegistrationAssumption DEF InsertOrg, Advance
<1>1. reg[p].slug \in Slug /\ reg[p].slug # None /\ reg[p].email \in Emails
  BY DEF RegInv, RegShape
<1>2. /\ \A q \in Procs: q # p => reg'[q] = reg[q]
      /\ reg'[p] = [reg[p] EXCEPT !.pc = "user", !.org = o]
      /\ reg'[p].pc = "user" /\ reg'[p].org = o
      /\ reg'[p].email = reg[p].email /\ reg'[p].slug = reg[p].slug
  BY DEF RegInv, RegTypeOK, Registering
<1>3. \A q \in Orgs: orgs'[q] = IF q = o THEN reg[p].slug ELSE orgs[q]
  BY DEF RegInv, RegTypeOK
<1>4. RegTypeOK'
  <2>1. orgs' \in [Orgs -> Slug \cup {None}]
    BY <1>1 DEF RegInv, RegTypeOK
  <2>2. reg[p] \in Registering
    BY DEF RegInv, RegTypeOK
  <2> HIDE DEF InsertOrg, Advance
  <2>3. [reg[p] EXCEPT !.pc = "user", !.org = o] \in Registering
    BY <2>2 DEF Registering
  <2> USE DEF InsertOrg, Advance
  <2>4. reg' \in [Procs -> Registering]
    BY <2>3 DEF RegInv, RegTypeOK
  <2> QED
    BY <2>1, <2>4 DEF RegInv, RegTypeOK
<1>5. RegShape'
  BY <1>1, <1>2 DEF RegInv, RegShape
<1>6. \A e \in Emails: users[e] # None => users[e] \in Orgs /\ users[e] # o
  BY DEF RegInv, RegTypeOK, UsersHaveOrgs
<1>7. UsersHaveOrgs'
  BY <1>1, <1>3, <1>6 DEF RegInv, UsersHaveOrgs
<1>8. \A q \in Procs: reg[q].pc = "user" => reg[q].org \in Orgs /\ reg[q].org # o
  BY DEF RegInv, RegShape, OwnOrg
<1>9. OwnOrg'
  <2> SUFFICES ASSUME NEW q \in Procs, reg'[q].pc = "user"
               PROVE  /\ orgs'[reg'[q].org] # None
                      /\ \A e \in Emails: users'[e] # reg'[q].org
                      /\ \A t \in Procs: reg'[t].pc = "user" /\ reg'[t].org = reg'[q].org => t = q
    BY DEF OwnOrg
  <2>1. CASE q = p
    BY <1>1, <1>2, <1>3, <1>6, <1>8, <2>1
  <2>2. CASE q # p
    <3>1. /\ orgs[reg[q].org] # None
          /\ \A e \in Emails: users[e] # reg[q].org
          /\ \A t \in Procs: reg[t].pc = "user" /\ reg[t].org = reg[q].org => t = q
      BY <1>2, <2>2 DEF RegInv, OwnOrg
    <3> QED
      BY <1>1, <1>2, <1>3, <1>8, <2>2, <3>1
  <2> QED
    BY <2>1, <2>2
<1>10. OwnRows' /\ AnsweredCanLogin'
  BY <1>2 DEF RegInv, OwnRows, AnsweredCanLogin, CanLogin
<1>11. TenantsAreSeparate'
  <2>1. \A q \in Orgs: orgs[q] # reg[p].slug
    BY DEF Taken
  <2>2. \A a, b \in Orgs: orgs'[a] # None /\ orgs'[a] = orgs'[b] => a = b
    BY <1>1, <1>3, <2>1 DEF RegInv, TenantsAreSeparate
  <2> QED
    BY <2>2 DEF RegInv, TenantsAreSeparate
<1>12. LockoutsTakeFaults'
  <2>1. LockedOut' = LockedOut
    BY <1>2 DEF LockedOut, CanLogin
  <2> QED
    BY <2>1 DEF RegInv, LockoutsTakeFaults
<1> QED
  BY <1>4, <1>5, <1>7, <1>9, <1>10, <1>11, <1>12 DEF RegInv

\* The address is new and the organization has no user yet.
LEMMA InsertUserKeepsRegInv ==
    ASSUME RegInv, NEW p \in Procs, reg[p].pc = "user", users[reg[p].email] = None,
           users' = [users EXCEPT ![reg[p].email] = reg[p].org],
           Advance(p, [reg[p] EXCEPT !.pc = "member"]),
           UNCHANGED <<orgs, members, begun, faults, answered>>
    PROVE  RegInv'
<1> DEFINE a == reg[p].email
           o == reg[p].org
<1>1. a \in Emails /\ o \in Orgs /\ reg[p].slug \in Slug /\ o # None
  BY RegistrationAssumption DEF RegInv, RegShape
<1>2. /\ \A q \in Procs: q # p => reg'[q] = reg[q]
      /\ reg'[p] = [reg[p] EXCEPT !.pc = "member"]
      /\ reg'[p].pc = "member" /\ reg'[p].org = o
      /\ reg'[p].email = a /\ reg'[p].slug = reg[p].slug
  BY DEF RegInv, RegTypeOK, Registering, Advance
<1>3. \A e \in Emails: users'[e] = IF e = a THEN o ELSE users[e]
  BY DEF RegInv, RegTypeOK
<1>4. RegTypeOK'
  BY <1>1 DEF RegInv, RegTypeOK, Registering, Advance
<1>5. RegShape'
  BY <1>1, <1>2 DEF RegInv, RegShape
<1>6. /\ orgs[o] # None
      /\ \A e \in Emails: users[e] # o
      /\ \A q \in Procs: reg[q].pc = "user" /\ reg[q].org = o => q = p
  BY DEF RegInv, OwnOrg
<1>7. UsersHaveOrgs'
  BY <1>3, <1>6 DEF RegInv, UsersHaveOrgs
<1>8. OwnOrg'
  <2> SUFFICES ASSUME NEW q \in Procs, reg'[q].pc = "user"
               PROVE  /\ orgs'[reg'[q].org] # None
                      /\ \A e \in Emails: users'[e] # reg'[q].org
                      /\ \A t \in Procs: reg'[t].pc = "user" /\ reg'[t].org = reg'[q].org => t = q
    BY DEF OwnOrg
  <2>1. q # p /\ reg'[q] = reg[q]
    BY <1>2
  <2>2. /\ orgs[reg[q].org] # None
        /\ \A e \in Emails: users[e] # reg[q].org
        /\ \A t \in Procs: reg[t].pc = "user" /\ reg[t].org = reg[q].org => t = q
    BY <2>1 DEF RegInv, OwnOrg
  <2>3. \A e \in Emails: users'[e] # reg'[q].org
    BY <1>3, <1>6, <2>1, <2>2
  <2>4. \A t \in Procs: reg'[t].pc = "user" /\ reg'[t].org = reg'[q].org => t = q
    BY <1>2, <2>1, <2>2
  <2> QED
    BY <2>1, <2>2, <2>3, <2>4
<1>9. \A e \in Emails: CanLogin(e) => CanLogin(e)' /\ e # a
  BY <1>3 DEF CanLogin
<1>10. \A q \in Procs: reg[q].pc \in {"member", "answer"} => reg[q].email \in Emails
  BY DEF RegInv, RegShape
<1>11. OwnRows'
  <2> SUFFICES ASSUME NEW q \in Procs
               PROVE  /\ reg'[q].pc = "member" => users'[reg'[q].email] = reg'[q].org
                      /\ reg'[q].pc = "answer" => CanLogin(reg[q].email)'
    BY DEF OwnRows
  <2>1. CASE q = p
    BY <1>1, <1>2, <1>3, <2>1
  <2>2. CASE q # p
    <3>1. reg'[q] = reg[q]
      BY <1>2, <2>2
    <3>2. CASE reg[q].pc = "answer"
      <4>1. CanLogin(reg[q].email) /\ reg[q].email \in Emails
        BY <1>10, <3>2 DEF RegInv, OwnRows
      <4> QED
        BY <1>9, <3>1, <3>2, <4>1 DEF CanLogin
    <3>3. CASE reg[q].pc = "member"
      <4>1. users[reg[q].email] = reg[q].org /\ reg[q].org \in Orgs /\ reg[q].email \in Emails
        BY <3>3 DEF RegInv, OwnRows, RegShape
      <4>2. reg[q].email # a
        BY <4>1, RegistrationAssumption
      <4> QED
        BY <1>3, <3>1, <3>3, <4>1, <4>2
    <3> QED
      BY <3>1, <3>2, <3>3
  <2> QED
    BY <2>1, <2>2
<1>12. AnsweredCanLogin'
  BY <1>9 DEF RegInv, RegTypeOK, AnsweredCanLogin
<1>13. TenantsAreSeparate'
  <2>1. \A e, f \in Emails: users'[e] # None /\ users'[e] = users'[f] => e = f
    BY <1>3, <1>6 DEF RegInv, TenantsAreSeparate
  <2>2. \A m \in members: m[2] \in Emails /\ m[1] \in Orgs /\ users[m[2]] = m[1]
    BY DEF RegInv, RegTypeOK, TenantsAreSeparate
  <2>3. \A m \in members: users'[m[2]] = m[1]
    BY <1>3, <2>2, RegistrationAssumption
  <2> QED
    BY <2>1, <2>3 DEF RegInv, TenantsAreSeparate
<1>14. LockoutsTakeFaults'
  <2>1. LockedOut' \in SUBSET LockedOut
    <3> SUFFICES ASSUME NEW e \in LockedOut' PROVE e \in LockedOut
      OBVIOUS
    <3>1. /\ e \in Emails /\ users'[e] # None /\ ~CanLogin(e)'
          /\ \A q \in Procs: ~(reg'[q].pc = "member" /\ reg'[q].email = e)
      BY DEF LockedOut
    <3>2. e # a
      BY <1>2, <3>1
    <3>3. users[e] # None /\ ~CanLogin(e)
      BY <1>3, <1>9, <3>1, <3>2
    <3>4. \A q \in Procs: ~(reg[q].pc = "member" /\ reg[q].email = e)
      BY <1>2, <3>1
    <3> QED
      BY <3>1, <3>3, <3>4 DEF LockedOut
  <2>2. Cardinality(LockedOut') <= Cardinality(LockedOut)
    BY <2>1, LockedOutIsFinite, FS_Subset
  <2> QED
    BY <2>2, LockedOutIsFinite DEF RegInv, RegTypeOK, LockoutsTakeFaults
<1> QED
  BY <1>4, <1>5, <1>7, <1>8, <1>11, <1>12, <1>13, <1>14 DEF RegInv

LEMMA InsertMemberKeepsRegInv ==
    ASSUME RegInv, NEW p \in Procs, InsertMember(p)
    PROVE  RegInv'
<1> DEFINE a == reg[p].email
           o == reg[p].org
<1> USE RegistrationAssumption DEF InsertMember, Advance
<1>1. a \in Emails /\ o \in Orgs /\ reg[p].slug \in Slug /\ users[a] = o /\ o # None
  BY DEF RegInv, RegShape, OwnRows
<1>2. /\ \A q \in Procs: q # p => reg'[q] = reg[q]
      /\ reg'[p] = [reg[p] EXCEPT !.pc = "answer"]
      /\ reg'[p].pc = "answer" /\ reg'[p].org = o
      /\ reg'[p].email = a /\ reg'[p].slug = reg[p].slug
  BY DEF RegInv, RegTypeOK, Registering
<1>3. RegTypeOK'
  BY <1>1 DEF RegInv, RegTypeOK, Registering
<1>4. RegShape' /\ UsersHaveOrgs' /\ OwnOrg'
  BY <1>1, <1>2 DEF RegInv, RegShape, UsersHaveOrgs, OwnOrg
<1>5. /\ \A e \in Emails: CanLogin(e) => CanLogin(e)'
      /\ CanLogin(a)'
  BY <1>1 DEF CanLogin
<1>6. \A q \in Procs: reg[q].pc = "answer" => reg[q].email \in Emails
  BY DEF RegInv, RegShape
<1>7. OwnRows'
  BY <1>2, <1>5, <1>6 DEF RegInv, OwnRows
<1>8. AnsweredCanLogin'
  BY <1>5 DEF RegInv, RegTypeOK, AnsweredCanLogin
<1>9. TenantsAreSeparate'
  BY <1>1 DEF RegInv, TenantsAreSeparate
<1>10. LockoutsTakeFaults'
  <2>1. LockedOut' \in SUBSET LockedOut
    BY <1>2, <1>5 DEF LockedOut
  <2>2. Cardinality(LockedOut') <= Cardinality(LockedOut)
    BY <2>1, LockedOutIsFinite, FS_Subset
  <2> QED
    BY <2>2, LockedOutIsFinite DEF RegInv, RegTypeOK, LockoutsTakeFaults
<1> QED
  BY <1>3, <1>4, <1>7, <1>8, <1>9, <1>10 DEF RegInv

LEMMA RegStepKeepsRegInv ==
    ASSUME RegInv, NEW p \in Procs, RegStep(p)
    PROVE  RegInv'
<1> USE RegistrationAssumption
<1>1. /\ begun \in Nat /\ faults \in Nat /\ reg[p] \in Registering
      /\ NoRegistration \in Registering /\ NoRegistration.pc = "idle"
  BY DEF RegInv, RegTypeOK, Registering, NoRegistration
<1>2. CASE \E e \in Emails, n \in Names: CheckEmail(p, e, n)
  <2> PICK e \in Emails, n \in Names: CheckEmail(p, e, n)
    BY <1>2
  <2> DEFINE r == [NoRegistration EXCEPT !.pc = "slug", !.email = e, !.slug = <<n, None>>]
  <2>1. <<n, None>> \in Slug
    BY DEF Slug
  <2>2. r \in Registering /\ r.pc = "slug" /\ r.email = e /\ r.slug = <<n, None>>
    BY <2>1 DEF Registering, NoRegistration
  <2>3. /\ reg' = [reg EXCEPT ![p] = r] /\ UNCHANGED regTables /\ reg[p].pc = "idle"
        /\ begun' = begun + 1 /\ faults' = faults /\ answered' = answered
    BY DEF CheckEmail, Advance
  <2>4. MovesTo(p, r)
    BY <1>1, <2>1, <2>2, <2>3 DEF MovesTo
  <2> QED
    BY <2>4, RegMove
<1>3. CASE LookUpSlug(p)
  <2> DEFINE plain == reg[p].slug
  <2>1. plain \in Slug /\ reg[p].email \in Emails /\ reg[p].pc = "slug"
    BY <1>3 DEF RegInv, RegShape, LookUpSlug
  <2>2. PICK r \in Registering:
          /\ reg' = [reg EXCEPT ![p] = r]
          /\ r.pc = "org" /\ r.email = reg[p].email /\ r.slug \in Slug
    <3>1. CASE \E s \in Suffixes: Advance(p, [reg[p] EXCEPT !.pc = "org", !.slug = <<plain[1], s>>])
      <4> PICK s \in Suffixes: Advance(p, [reg[p] EXCEPT !.pc = "org", !.slug = <<plain[1], s>>])
        BY <3>1
      <4>1. <<plain[1], s>> \in Slug
        BY <2>1 DEF Slug
      <4> DEFINE t == [reg[p] EXCEPT !.pc = "org", !.slug = <<plain[1], s>>]
      <4>2. /\ t \in Registering /\ t.pc = "org" /\ t.email = reg[p].email
            /\ t.slug = <<plain[1], s>>
        BY <1>1, <2>1, <4>1 DEF Registering
      <4> QED
        BY <4>1, <4>2 DEF Advance
    <3>2. CASE Advance(p, [reg[p] EXCEPT !.pc = "org"])
      <4> DEFINE t == [reg[p] EXCEPT !.pc = "org"]
      <4>1. t \in Registering /\ t.pc = "org" /\ t.email = reg[p].email /\ t.slug = plain
        BY <1>1 DEF Registering
      <4> QED
        BY <2>1, <3>2, <4>1 DEF Advance
    <3> QED
      BY <1>3, <3>1, <3>2 DEF LookUpSlug
  <2>3. UNCHANGED <<regTables, begun, answered>> /\ (faults' = faults \/ faults' = faults + 1)
    BY <1>3 DEF LookUpSlug
  <2>4. MovesTo(p, r)
    BY <1>1, <2>1, <2>2, <2>3 DEF MovesTo
  <2> QED
    BY <2>4, RegMove
<1>4. CASE \E o \in Orgs: InsertOrg(p, o)
  BY <1>4, InsertOrgKeepsRegInv
<1>5. CASE OrgRefused(p)
  <2>1. MovesTo(p, NoRegistration)
    BY <1>1, <1>5 DEF OrgRefused, Drop, Advance, MovesTo
  <2> QED
    BY <2>1, RegMove
<1>6. CASE InsertUser(p)
  <2>1. CASE users[reg[p].email] = None
    BY <1>6, <2>1, InsertUserKeepsRegInv DEF InsertUser
  <2>2. CASE users[reg[p].email] # None
    <3>1. /\ reg' = [reg EXCEPT ![p] = NoRegistration] /\ reg[p].pc = "user"
          /\ UNCHANGED <<regTables, begun, faults, answered>>
      BY <1>6, <2>2 DEF InsertUser, Drop, Advance, regTables
    <3>2. MovesTo(p, NoRegistration)
      BY <1>1, <3>1 DEF MovesTo
    <3> QED
      BY <3>2, RegMove
  <2> QED
    BY <2>1, <2>2
<1>7. CASE InsertMember(p)
  BY <1>7, InsertMemberKeepsRegInv
<1>8. CASE RegFail(p)
  <2>1. MovesTo(p, NoRegistration)
    BY <1>1, <1>8 DEF RegFail, RegFails, Drop, Advance, MovesTo
  <2> QED
    BY <2>1, RegMove
<1>9. CASE Answer(p)
  <2>1. MovesTo(p, NoRegistration)
    BY <1>1, <1>9 DEF Answer, Drop, Advance, MovesTo
  <2> QED
    BY <2>1, RegMove
<1> QED
  BY <1>2, <1>3, <1>4, <1>5, <1>6, <1>7, <1>8, <1>9 DEF RegStep

-------------------------------------------------------------------------------
(* The requests of billing: what each is made of where it stands.          *)

Shape(r) ==
    /\ r \in BillRequest
    /\ r.pc # "idle" => r.org \in Orgs
    /\ r.pc \in {"create", "update"} => r.sub \in Subscription
    /\ r.pc \in {"create", "update", "history"} => r.event \in Event
    /\ r.pc = "create" => r.event.from = None
    /\ r.pc = "update" => r.event.from # None
    /\ r.pc = "overrideCommit" => r.value \in Limit
    /\ r.pc = "usage" => r.value \in Nat
    /\ r.pc \in {"usage", "increment"} => r.delta \in Deltas

BillShape == \A p \in Procs: Shape(bill[p])

\* Only a row that is there is rewritten, and no row is ever removed.
UpdatesHaveRow == \A p \in Procs: bill[p].pc = "update" => subs[bill[p].org] # None

Creations(o) == {i \in 1..Len(history[o]): history[o][i].from = None}
Creating(o) == {p \in InHistory(o): bill[p].event.from = None}

\* The creation of a subscription is in the history or about to be, or lost,
\* and there is none as long as there is no subscription.
OneCreation ==
    \A o \in Orgs:
        /\ \A i, j \in Creations(o): i = j
        /\ \A p, q \in Creating(o): p = q
        /\ Creations(o) = {} \/ Creating(o) = {}
        /\ subs[o] = None => Creations(o) = {} /\ Creating(o) = {}

\* A process leaves one override of an organization at most, and the request
\* it is serving sees it: that is why the next SetOverride removes it.
OneOverrideEach ==
    /\ \A o \in Orgs: \A v, w \in overrides[o]: v.by = w.by => v = w
    /\ \A p \in Procs: bill[p].pc \in {"overrideDelete", "overrideCommit"} =>
          \A v \in overrides[bill[p].org]: v.by = p => v \in bill[p].rows

IInv ==
    /\ TypeOK
    /\ RegInv
    /\ BillShape
    /\ UpdatesHaveRow
    /\ OneCreation
    /\ HistoryMissesOnlyFailures
    /\ OneOverrideEach

-------------------------------------------------------------------------------
(* Numbers *)

LEMMA Monotonic ==
    ASSUME NEW k \in Nat, NEW i \in Int, NEW j \in Int, i <= j
    PROVE  k * i <= k * j /\ k * i \in Int
<1>1. j - i \in Nat
  OBVIOUS
<1>2. k * (j - i) \in Nat
  BY <1>1
<1>3. k * j = k * i + k * (j - i)
  OBVIOUS
<1> QED
  BY <1>2, <1>3

LEMMA LargestDeltaIsLargest ==
    /\ LargestDelta \in Deltas /\ LargestDelta \in Nat \ {0}
    /\ \A d \in Deltas: d \in Nat /\ d <= LargestDelta
  BY BillingAssumption DEF LargestDelta

LEMMA ProcsAreCounted ==
    /\ IsFiniteSet(Procs) /\ Cardinality(Procs) \in Nat \ {0}
    /\ \A o: IsFiniteSet(InHistory(o)) /\ Cardinality(InHistory(o)) \in Nat
<1>1. IsFiniteSet(Procs) /\ Procs # {}
  BY RegistrationAssumption
<1>2. Cardinality(Procs) \in Nat \ {0}
  BY <1>1, FS_EmptySet, FS_CardinalityType
<1>3. ASSUME NEW o PROVE IsFiniteSet(InHistory(o)) /\ Cardinality(InHistory(o)) \in Nat
  <2>1. InHistory(o) \in SUBSET Procs
    BY DEF InHistory
  <2> QED
    BY <1>1, <2>1, FS_Subset, FS_CardinalityType
<1> QED
  BY <1>1, <1>2, <1>3

LEMMA AtMostOne ==
    ASSUME NEW S, \A x, y \in S: x = y
    PROVE  Cardinality(S) \in {0, 1}
<1>1. CASE S = {}
  BY <1>1, FS_EmptySet
<1>2. CASE S # {}
  <2> PICK x \in S: TRUE
    BY <1>2
  <2>1. S = {x}
    OBVIOUS
  <2> QED
    BY <2>1, FS_Singleton
<1> QED
  BY <1>1, <1>2

LEMMA InitIInv == Init => IInv
<1> SUFFICES ASSUME Init PROVE IInv
  OBVIOUS
<1> USE DEF Init
<1>1. \A p \in Procs: bill[p] = NoRequest /\ NoRequest.pc = "idle"
  BY DEF NoRequest
<1>2. RegInv
  BY RegInitInv
<1>3. NoRequest \in BillRequest
  BY DEF NoRequest, BillRequest
<1>4. TypeOK
  <2>1. 0 \in Months /\ RegTypeOK
    BY <1>2, BillingAssumption DEF Months, RegInv
  <2> QED
    BY <1>3, <2>1 DEF TypeOK
<1>5. BillShape /\ UpdatesHaveRow
  BY <1>1, <1>3 DEF BillShape, Shape, UpdatesHaveRow
<1>6. \A o \in Orgs: InHistory(o) = {} /\ Creations(o) = {} /\ Creating(o) = {}
  BY <1>1 DEF InHistory, Creations, Creating
<1>7. OneCreation
  BY <1>6 DEF OneCreation
<1>8. HistoryMissesOnlyFailures
  <2>1. \A o \in Orgs: Len(history[o]) = 0 /\ changes[o] = 0
    <3>1. Len(<<>>) = 0
      OBVIOUS
    <3> QED
      BY <3>1
  <2>2. faults = 0
    BY DEF RegInit
  <2>3. \A o \in Orgs: Cardinality(InHistory(o)) = 0
    BY <1>6, FS_EmptySet
  <2> QED
    BY <2>1, <2>2, <2>3 DEF HistoryMissesOnlyFailures
<1>9. OneOverrideEach
  BY <1>1 DEF OneOverrideEach
<1> QED
  BY <1>2, <1>4, <1>5, <1>7, <1>8, <1>9 DEF IInv

-------------------------------------------------------------------------------
(* What a step keeps that does not concern itself with one of the parts.   *)

Replaces(p, r) == Shape(r) /\ bill' = [bill EXCEPT ![p] = r]

LEMMA Replacing ==
    ASSUME IInv, NEW p \in Procs, NEW r, Replaces(p, r)
    PROVE  /\ bill'[p] = r
           /\ \A q \in Procs: q # p => bill'[q] = bill[q]
           /\ bill' \in [Procs -> BillRequest]
           /\ BillShape'
<1>1. bill \in [Procs -> BillRequest] /\ r \in BillRequest
  BY DEF IInv, TypeOK, Replaces, Shape
<1>2. /\ bill'[p] = r /\ \A q \in Procs: q # p => bill'[q] = bill[q]
      /\ bill' \in [Procs -> BillRequest]
  BY <1>1 DEF Replaces
<1>3. \A q \in Procs: Shape(bill'[q])
  BY <1>2 DEF IInv, BillShape, Replaces
<1> QED
  BY <1>2, <1>3 DEF BillShape, Shape

LEMMA HistoryFrame ==
    ASSUME IInv, NEW p \in Procs, NEW r, Replaces(p, r), r.pc # "history",
           UNCHANGED <<subs, history, changes>>, faults' \in Nat, faults <= faults',
           bill[p].pc = "history" => faults + 1 <= faults',
           r.pc = "update" => subs[r.org] # None
    PROVE  UpdatesHaveRow' /\ OneCreation' /\ HistoryMissesOnlyFailures'
<1>1. bill'[p] = r /\ \A q \in Procs: q # p => bill'[q] = bill[q]
  BY Replacing
<1>2. UpdatesHaveRow'
  BY <1>1 DEF IInv, UpdatesHaveRow
<1>3. \A o: InHistory(o)' = InHistory(o) \ {p}
  BY <1>1 DEF InHistory
<1>4. \A o: Creating(o)' = Creating(o) \ {p} /\ Creations(o)' = Creations(o)
  BY <1>1, <1>3 DEF Creating, Creations, InHistory
<1>5. OneCreation'
  BY <1>4 DEF IInv, OneCreation
<1>6. HistoryMissesOnlyFailures'
  <2> SUFFICES ASSUME NEW o \in Orgs
               PROVE  /\ Len(history[o]) + Cardinality(InHistory(o)') <= changes[o]
                      /\ changes[o] <= Len(history[o]) + Cardinality(InHistory(o)') + faults'
    BY DEF HistoryMissesOnlyFailures
  <2>1. /\ Len(history[o]) + Cardinality(InHistory(o)) <= changes[o]
        /\ changes[o] <= Len(history[o]) + Cardinality(InHistory(o)) + faults
    BY DEF IInv, HistoryMissesOnlyFailures
  <2>2. /\ Len(history[o]) \in Nat /\ changes[o] \in Nat /\ faults \in Nat
        /\ IsFiniteSet(InHistory(o)) /\ Cardinality(InHistory(o)) \in Nat
    BY ProcsAreCounted DEF IInv, TypeOK, RegTypeOK
  <2>3. CASE p \in InHistory(o)
    <3>1. Cardinality(InHistory(o)') = Cardinality(InHistory(o)) - 1
      BY <1>3, <2>2, <2>3, FS_RemoveElement
    <3>2. faults + 1 <= faults'
      BY <2>3 DEF InHistory
    <3> QED
      BY <2>1, <2>2, <3>1, <3>2
  <2>4. CASE p \notin InHistory(o)
    <3>1. InHistory(o)' = InHistory(o)
      BY <1>3, <2>4
    <3> QED
      BY <2>1, <2>2, <3>1
  <2> QED
    BY <2>3, <2>4
<1> QED
  BY <1>2, <1>5, <1>6

LEMMA OverrideFrame ==
    ASSUME IInv, NEW p \in Procs, NEW r, Replaces(p, r),
           r.pc \notin {"overrideDelete", "overrideCommit"}, UNCHANGED overrides
    PROVE  OneOverrideEach'
<1>1. bill'[p] = r /\ \A q \in Procs: q # p => bill'[q] = bill[q]
  BY Replacing
<1> QED
  BY <1>1 DEF IInv, OneOverrideEach

\* Registrations stand still while a request of billing is served.
RegStands ==
    /\ UNCHANGED <<regTables, reg, answered>>
    /\ begun' \in Nat /\ faults' \in Nat /\ faults <= faults'

LEMMA TypeFrame ==
    ASSUME IInv, NEW p \in Procs, NEW r, Replaces(p, r), RegStands,
           subs' \in [Orgs -> Subscription \cup {None}],
           history' \in [Orgs -> Seq(Event)],
           overrides' \in [Orgs -> SUBSET Override],
           usage' \in [Orgs -> [Months -> Nat]],
           changes' \in [Orgs -> Nat], granted' \in [Orgs -> Nat], unbounded' \subseteq Orgs,
           UNCHANGED month
    PROVE  TypeOK' /\ RegInv' /\ BillShape'
<1>1. RegInv'
  BY RegFrame DEF IInv, RegStands
<1>2. bill' \in [Procs -> BillRequest] /\ BillShape'
  BY Replacing
<1> QED
  BY <1>1, <1>2 DEF IInv, TypeOK, RegInv

LEMMA BeginStands ==
    ASSUME IInv, NEW p \in Procs, NEW o, Begin(p, o)
    PROVE  RegStands /\ faults' = faults /\ bill[p].pc = "idle"
  BY DEF Begin, IInv, TypeOK, RegTypeOK, RegStands

-------------------------------------------------------------------------------
(* The actions *)

LEMMA BeginCreateKeeps ==
    ASSUME IInv, NEW p \in Procs, NEW o \in Orgs, NEW plan \in Plans,
           NEW status \in {"active", "trialing"}, BeginCreate(p, o, plan, status)
    PROVE  IInv'
<1> DEFINE r == [NoRequest EXCEPT !.pc = "create", !.org = o,
                    !.sub = [plan |-> plan, status |-> status, canceledAt |-> FALSE],
                    !.event = [from |-> None, to |-> status]]
<1>1. /\ [plan |-> plan, status |-> status, canceledAt |-> FALSE] \in Subscription
      /\ [from |-> None, to |-> status] \in Event
  BY DEF Subscription, Event, Status
<1>2. /\ r.pc = "create" /\ r.org = o
      /\ r.sub = [plan |-> plan, status |-> status, canceledAt |-> FALSE]
      /\ r.event = [from |-> None, to |-> status]
  BY DEF NoRequest
<1>3. r \in BillRequest
  BY <1>1 DEF NoRequest, BillRequest
<1>4. Shape(r)
  BY <1>1, <1>2, <1>3 DEF Shape
<1>5. /\ Replaces(p, r) /\ RegStands /\ faults' = faults /\ bill[p].pc = "idle"
      /\ UNCHANGED <<subs, history, overrides, usage, month, changes, granted, unbounded>>
  BY <1>4, BeginStands DEF BeginCreate, Move, Replaces, billTables
<1>6. TypeOK' /\ RegInv' /\ BillShape'
  BY <1>5, TypeFrame DEF IInv, TypeOK
<1>7. faults' \in Nat /\ faults <= faults'
  BY <1>5 DEF RegStands
<1>8. UpdatesHaveRow' /\ OneCreation' /\ HistoryMissesOnlyFailures'
  BY <1>2, <1>5, <1>7, HistoryFrame
<1>9. OneOverrideEach'
  BY <1>2, <1>5, OverrideFrame
<1> QED
  BY <1>6, <1>8, <1>9 DEF IInv

LEMMA BeginRewriteKeeps ==
    ASSUME IInv, NEW p \in Procs, NEW o \in Orgs, NEW row, BeginRewrite(p, o, row),
           subs[o] \in Subscription => row \in Subscription
    PROVE  IInv'
<1> DEFINE r == [NoRequest EXCEPT !.pc = "update", !.org = o, !.sub = row,
                    !.event = [from |-> subs[o].status, to |-> row.status]]
<1>1. subs[o] # None /\ subs[o] \in Subscription /\ row \in Subscription
  BY DEF BeginRewrite, IInv, TypeOK
<1>2. /\ [from |-> subs[o].status, to |-> row.status] \in Event
      /\ subs[o].status # None
  BY <1>1, BillingAssumption DEF Subscription, Event
<1>3. /\ r.pc = "update" /\ r.org = o /\ r.sub = row
      /\ r.event = [from |-> subs[o].status, to |-> row.status]
      /\ r.event.from = subs[o].status
  BY DEF NoRequest
<1>4. r \in BillRequest
  BY <1>1, <1>2 DEF NoRequest, BillRequest
<1>5. Shape(r)
  BY <1>1, <1>2, <1>3, <1>4 DEF Shape
<1>6. /\ Replaces(p, r) /\ RegStands /\ faults' = faults /\ bill[p].pc = "idle"
      /\ UNCHANGED <<subs, history, overrides, usage, month, changes, granted, unbounded>>
  BY <1>5, BeginStands DEF BeginRewrite, Move, Replaces, billTables
<1>7. TypeOK' /\ RegInv' /\ BillShape'
  BY <1>6, TypeFrame DEF IInv, TypeOK
<1>8. faults' \in Nat /\ faults <= faults'
  BY <1>6 DEF RegStands
<1>9. UpdatesHaveRow' /\ OneCreation' /\ HistoryMissesOnlyFailures'
  BY <1>1, <1>3, <1>6, <1>8, HistoryFrame
<1>10. OneOverrideEach'
  BY <1>3, <1>6, OverrideFrame
<1> QED
  BY <1>7, <1>9, <1>10 DEF IInv

\* A request writes its row and turns to the history.
LEMMA WritingKeepsHistory ==
    ASSUME IInv, NEW p \in Procs, NEW r, Replaces(p, r), NEW o \in Orgs,
           bill[p].pc \in {"create", "update"}, bill[p].org = o,
           r.pc = "history", r.org = o, r.event = bill[p].event,
           bill[p].pc = "create" => subs[o] = None,
           subs' = [subs EXCEPT ![o] = bill[p].sub],
           changes' = [changes EXCEPT ![o] = @ + 1],
           UNCHANGED <<history, faults>>
    PROVE  UpdatesHaveRow' /\ OneCreation' /\ HistoryMissesOnlyFailures'
<1>1. bill'[p] = r /\ \A q \in Procs: q # p => bill'[q] = bill[q]
  BY Replacing
<1>2. bill[p].sub # None
  BY BillingAssumption DEF IInv, BillShape, Shape
<1>3. /\ subs'[o] # None
      /\ \A q \in Orgs: q # o => subs'[q] = subs[q]
      /\ changes'[o] = changes[o] + 1
      /\ \A q \in Orgs: q # o => changes'[q] = changes[q]
  BY <1>2 DEF IInv, TypeOK
<1>4. UpdatesHaveRow'
  <2> SUFFICES ASSUME NEW q \in Procs, bill'[q].pc = "update"
               PROVE  subs'[bill'[q].org] # None
    BY DEF UpdatesHaveRow
  <2>1. q # p /\ bill'[q] = bill[q]
    BY <1>1
  <2>2. subs[bill[q].org] # None /\ bill[q].org \in Orgs
    BY <2>1 DEF IInv, UpdatesHaveRow, BillShape, Shape
  <2> QED
    BY <1>3, <2>1, <2>2
<1>5. /\ InHistory(o)' = InHistory(o) \cup {p} /\ p \notin InHistory(o)
      /\ \A q \in Orgs: q # o => InHistory(q)' = InHistory(q)
  BY <1>1 DEF InHistory
<1>6. /\ bill[p].pc = "update" => bill[p].event.from # None
      /\ bill[p].pc = "create" => bill[p].event.from = None
  BY DEF IInv, BillShape, Shape
<1>7. OneCreation'
  <2>1. \A q \in Orgs: Creations(q)' = Creations(q)
    BY DEF Creations
  <2>2. \A q \in Orgs: q # o => Creating(q)' = Creating(q)
    BY <1>1, <1>5 DEF Creating, InHistory
  <2>3. CASE bill[p].pc = "update"
    <3>1. Creating(o)' = Creating(o)
      BY <1>1, <1>5, <1>6, <2>3 DEF Creating, InHistory
    <3> QED
      BY <1>3, <2>1, <2>2, <3>1 DEF IInv, OneCreation
  <2>4. CASE bill[p].pc = "create"
    <3>1. Creations(o) = {} /\ Creating(o) = {}
      BY <2>4 DEF IInv, OneCreation
    <3>2. \A q \in Creating(o)': q = p
      BY <1>1, <1>5, <3>1 DEF Creating, InHistory
    <3> QED
      BY <1>3, <2>1, <2>2, <3>1, <3>2 DEF IInv, OneCreation
  <2> QED
    BY <2>3, <2>4
<1>8. HistoryMissesOnlyFailures'
  <2> SUFFICES ASSUME NEW q \in Orgs
               PROVE  /\ Len(history[q]) + Cardinality(InHistory(q)') <= changes'[q]
                      /\ changes'[q] <= Len(history[q]) + Cardinality(InHistory(q)') + faults
    BY DEF HistoryMissesOnlyFailures
  <2>1. /\ Len(history[q]) + Cardinality(InHistory(q)) <= changes[q]
        /\ changes[q] <= Len(history[q]) + Cardinality(InHistory(q)) + faults
    BY DEF IInv, HistoryMissesOnlyFailures
  <2>2. /\ Len(history[q]) \in Nat /\ changes[q] \in Nat /\ faults \in Nat
        /\ IsFiniteSet(InHistory(q)) /\ Cardinality(InHistory(q)) \in Nat
    BY ProcsAreCounted DEF IInv, TypeOK, RegTypeOK
  <2>3. CASE q = o
    <3>1. Cardinality(InHistory(q)') = Cardinality(InHistory(q)) + 1
      BY <1>5, <2>2, <2>3, FS_AddElement
    <3> QED
      BY <1>3, <2>1, <2>2, <2>3, <3>1
  <2>4. CASE q # o
    BY <1>3, <1>5, <2>1, <2>4
  <2> QED
    BY <2>3, <2>4
<1> QED
  BY <1>4, <1>7, <1>8

LEMMA NoRequestShape == Shape(NoRequest) /\ NoRequest.pc = "idle"
  BY DEF NoRequest, Shape, BillRequest

LEMMA InsertSubscriptionKeeps ==
    ASSUME IInv, NEW p \in Procs, InsertSubscription(p)
    PROVE  IInv'
<1>1. /\ bill[p].pc = "create" /\ bill[p].org \in Orgs /\ bill[p] \in BillRequest
      /\ bill[p].event \in Event /\ bill[p].sub \in Subscription
  BY DEF InsertSubscription, IInv, BillShape, Shape
<1>2. /\ UNCHANGED <<history, overrides, usage, month, granted, unbounded, faults>>
      /\ RegStands
  BY DEF InsertSubscription, regVars, RegStands, IInv, TypeOK, RegTypeOK
<1>3. CASE CanCreate(bill[p].org)
  <2> DEFINE r == [bill[p] EXCEPT !.pc = "history", !.sub = None]
  <2>1. /\ r \in BillRequest /\ r.pc = "history" /\ r.org = bill[p].org
        /\ r.event = bill[p].event
    BY <1>1 DEF BillRequest
  <2>2. /\ Replaces(p, r)
        /\ subs' = [subs EXCEPT ![bill[p].org] = bill[p].sub]
        /\ changes' = [changes EXCEPT ![bill[p].org] = @ + 1]
    BY <1>1, <1>3, <2>1 DEF InsertSubscription, Move, Replaces, Shape
  <2>3. subs' \in [Orgs -> Subscription \cup {None}] /\ changes' \in [Orgs -> Nat]
    BY <1>1, <2>2 DEF IInv, TypeOK
  <2>4. TypeOK' /\ RegInv' /\ BillShape'
    BY <1>2, <2>2, <2>3, TypeFrame DEF IInv, TypeOK
  <2>5. UpdatesHaveRow' /\ OneCreation' /\ HistoryMissesOnlyFailures'
    BY <1>1, <1>2, <1>3, <2>1, <2>2, WritingKeepsHistory DEF CanCreate
  <2>6. OneOverrideEach'
    BY <1>2, <2>1, <2>2, OverrideFrame
  <2> QED
    BY <2>4, <2>5, <2>6 DEF IInv
<1>4. CASE ~CanCreate(bill[p].org)
  <2>1. Replaces(p, NoRequest) /\ UNCHANGED <<subs, changes>>
    BY <1>4, NoRequestShape DEF InsertSubscription, Finish, Move, Replaces
  <2>2. TypeOK' /\ RegInv' /\ BillShape'
    BY <1>2, <2>1, TypeFrame DEF IInv, TypeOK
  <2>3. faults' \in Nat /\ faults <= faults'
    BY <1>2 DEF RegStands
  <2>4. UpdatesHaveRow' /\ OneCreation' /\ HistoryMissesOnlyFailures'
    BY <1>1, <1>2, <2>1, <2>3, NoRequestShape, HistoryFrame
  <2>5. OneOverrideEach'
    BY <1>2, <2>1, NoRequestShape, OverrideFrame
  <2> QED
    BY <2>2, <2>4, <2>5 DEF IInv
<1> QED
  BY <1>3, <1>4

LEMMA UpdateRowKeeps ==
    ASSUME IInv, NEW p \in Procs, UpdateRow(p)
    PROVE  IInv'
<1> DEFINE r == [bill[p] EXCEPT !.pc = "history", !.sub = None]
<1>1. /\ bill[p].pc = "update" /\ bill[p].org \in Orgs /\ bill[p] \in BillRequest
      /\ bill[p].event \in Event /\ bill[p].sub \in Subscription
  BY DEF UpdateRow, IInv, BillShape, Shape
<1>2. /\ UNCHANGED <<history, overrides, usage, month, granted, unbounded, faults>>
      /\ RegStands
  BY DEF UpdateRow, regVars, RegStands, IInv, TypeOK, RegTypeOK
<1>3. /\ r \in BillRequest /\ r.pc = "history" /\ r.org = bill[p].org
      /\ r.event = bill[p].event
  BY <1>1 DEF BillRequest
<1>4. /\ Replaces(p, r)
      /\ subs' = [subs EXCEPT ![bill[p].org] = bill[p].sub]
      /\ changes' = [changes EXCEPT ![bill[p].org] = @ + 1]
  BY <1>1, <1>3 DEF UpdateRow, AfterUpdate, Move, Replaces, Shape
<1>5. subs' \in [Orgs -> Subscription \cup {None}] /\ changes' \in [Orgs -> Nat]
  BY <1>1, <1>4 DEF IInv, TypeOK
<1>6. TypeOK' /\ RegInv' /\ BillShape'
  BY <1>2, <1>4, <1>5, TypeFrame DEF IInv, TypeOK
<1>7. UpdatesHaveRow' /\ OneCreation' /\ HistoryMissesOnlyFailures'
  BY <1>1, <1>2, <1>3, <1>4, WritingKeepsHistory
<1>8. OneOverrideEach'
  BY <1>2, <1>3, <1>4, OverrideFrame
<1> QED
  BY <1>6, <1>7, <1>8 DEF IInv

LEMMA WriteHistoryKeeps ==
    ASSUME IInv, NEW p \in Procs, WriteHistory(p)
    PROVE  IInv'
<1>1. PICK o \in Orgs, e \in Event:
        bill[p].pc = "history" /\ bill[p].org = o /\ bill[p].event = e
  BY DEF WriteHistory, IInv, BillShape, Shape
<1>2. /\ Replaces(p, NoRequest) /\ RegStands
      /\ history' = [history EXCEPT ![o] = Append(@, e)]
      /\ UNCHANGED <<subs, overrides, usage, month, changes, granted, unbounded, faults>>
  BY <1>1, NoRequestShape DEF WriteHistory, Finish, Move, Replaces, regVars, RegStands,
                        IInv, TypeOK, RegTypeOK
<1>3. bill'[p] = NoRequest /\ \A q \in Procs: q # p => bill'[q] = bill[q]
  BY <1>2, Replacing
<1>4. history[o] \in Seq(Event) /\ history \in [Orgs -> Seq(Event)]
  BY <1>1 DEF IInv, TypeOK
<1>5. /\ Append(history[o], e) \in Seq(Event)
      /\ Len(Append(history[o], e)) = Len(history[o]) + 1 /\ Len(history[o]) \in Nat
      /\ \A i \in 1..Len(history[o]): Append(history[o], e)[i] = history[o][i]
      /\ Append(history[o], e)[Len(history[o]) + 1] = e
  BY <1>1, <1>4
<1>6. /\ history' \in [Orgs -> Seq(Event)]
      /\ history'[o] = Append(history[o], e)
      /\ \A q \in Orgs: q # o => history'[q] = history[q]
  BY <1>1, <1>2, <1>4, <1>5
<1>7. TypeOK' /\ RegInv' /\ BillShape'
  BY <1>2, <1>6, TypeFrame DEF IInv, TypeOK
<1>8. UpdatesHaveRow'
  BY <1>2, <1>3, NoRequestShape DEF IInv, UpdatesHaveRow
<1>9. /\ InHistory(o)' = InHistory(o) \ {p} /\ p \in InHistory(o)
      /\ \A q \in Orgs: q # o => InHistory(q)' = InHistory(q)
  BY <1>1, <1>3, NoRequestShape DEF InHistory
<1>10. OneCreation'
  <2>1. /\ Creating(o)' = Creating(o) \ {p}
        /\ \A q \in Orgs: q # o => Creating(q)' = Creating(q) /\ Creations(q)' = Creations(q)
    BY <1>3, <1>6, <1>9 DEF Creating, Creations, InHistory
  <2>2. \A i \in Creations(o)': i \in Creations(o) \/ (i = Len(history[o]) + 1 /\ e.from = None)
    BY <1>5, <1>6 DEF Creations
  <2>3. /\ \A i, j \in Creations(o): i = j
        /\ \A t, q \in Creating(o): t = q
        /\ Creations(o) = {} \/ Creating(o) = {}
        /\ subs[o] = None => Creations(o) = {} /\ Creating(o) = {}
    BY <1>1 DEF IInv, OneCreation
  <2>4. CASE e.from = None
    <3>1. p \in Creating(o) /\ Creating(o)' = {} /\ Creations(o) = {} /\ subs[o] # None
      BY <1>1, <1>9, <2>1, <2>3, <2>4 DEF Creating
    <3>2. \A i \in Creations(o)': i = Len(history[o]) + 1
      BY <2>2, <3>1
    <3>3. ASSUME NEW q \in Orgs
          PROVE  /\ \A i, j \in Creations(q)': i = j
                 /\ \A t, x \in Creating(q)': t = x
                 /\ Creations(q)' = {} \/ Creating(q)' = {}
                 /\ subs[q] = None => Creations(q)' = {} /\ Creating(q)' = {}
      <4>1. CASE q = o
        BY <3>1, <3>2, <4>1
      <4>2. CASE q # o
        BY <2>1, <4>2 DEF IInv, OneCreation
      <4> QED
        BY <4>1, <4>2
    <3> QED
      BY <1>2, <3>3 DEF OneCreation
  <2>5. CASE e.from # None
    <3>1. Creations(o)' \subseteq Creations(o)
      BY <2>2, <2>5
    <3> QED
      BY <1>1, <1>2, <2>1, <2>3, <3>1 DEF IInv, OneCreation
  <2> QED
    BY <2>4, <2>5
<1>11. HistoryMissesOnlyFailures'
  <2> SUFFICES ASSUME NEW q \in Orgs
               PROVE  /\ Len(history'[q]) + Cardinality(InHistory(q)') <= changes[q]
                      /\ changes[q] <= Len(history'[q]) + Cardinality(InHistory(q)') + faults
    BY <1>2 DEF HistoryMissesOnlyFailures
  <2>1. /\ Len(history[q]) + Cardinality(InHistory(q)) <= changes[q]
        /\ changes[q] <= Len(history[q]) + Cardinality(InHistory(q)) + faults
    BY DEF IInv, HistoryMissesOnlyFailures
  <2>2. IsFiniteSet(InHistory(q)) /\ Cardinality(InHistory(q)) \in Nat
    BY ProcsAreCounted
  <2>3. CASE q = o
    <3>1. Cardinality(InHistory(q)') = Cardinality(InHistory(q)) - 1
      BY <1>9, <2>2, <2>3, FS_RemoveElement
    <3>2. Len(history'[q]) = Len(history[q]) + 1 /\ Len(history[q]) \in Nat
      BY <1>5, <1>6, <2>3
    <3>3. changes[q] \in Nat /\ faults \in Nat
      BY DEF IInv, TypeOK, RegTypeOK
    <3> QED
      BY <2>1, <2>2, <3>1, <3>2, <3>3
  <2>4. CASE q # o
    BY <1>6, <1>9, <2>1, <2>4
  <2> QED
    BY <2>3, <2>4
<1>12. OneOverrideEach'
  BY <1>2, NoRequestShape, OverrideFrame
<1> QED
  BY <1>7, <1>8, <1>10, <1>11, <1>12 DEF IInv

-------------------------------------------------------------------------------

LEMMA BeginOverrideKeeps ==
    ASSUME IInv, NEW p \in Procs, NEW o \in Orgs, NEW value \in Values \cup {None},
           BeginOverride(p, o, value)
    PROVE  IInv'
<1> DEFINE r == [NoRequest EXCEPT !.pc = "overrideDelete", !.org = o, !.value = value,
                    !.rows = overrides[o], !.id = begun]
<1>1. /\ value \in Limit \cup {None} /\ overrides[o] \in SUBSET Override /\ begun \in Nat
  BY BillingAssumption DEF IInv, TypeOK, RegTypeOK
<1>2. /\ r.pc = "overrideDelete" /\ r.org = o /\ r.rows = overrides[o]
  BY DEF NoRequest
<1>3. r \in BillRequest
  BY <1>1 DEF NoRequest, BillRequest
<1>4. Shape(r)
  BY <1>2, <1>3 DEF Shape
<1>5. /\ Replaces(p, r) /\ RegStands /\ faults' = faults /\ bill[p].pc = "idle"
      /\ UNCHANGED <<subs, history, overrides, usage, month, changes, granted, unbounded>>
  BY <1>4, BeginStands DEF BeginOverride, Move, Replaces, billTables
<1>6. TypeOK' /\ RegInv' /\ BillShape'
  BY <1>5, TypeFrame DEF IInv, TypeOK
<1>7. faults' \in Nat /\ faults <= faults'
  BY <1>5 DEF RegStands
<1>8. UpdatesHaveRow' /\ OneCreation' /\ HistoryMissesOnlyFailures'
  BY <1>2, <1>5, <1>7, HistoryFrame
<1>10. OneOverrideEach'
  <2>1. bill'[p] = r /\ \A q \in Procs: q # p => bill'[q] = bill[q]
    BY <1>5, Replacing
  <2> QED
    BY <1>2, <1>5, <2>1 DEF IInv, OneOverrideEach
<1> QED
  BY <1>6, <1>8, <1>10 DEF IInv

LEMMA DeleteRowsKeeps ==
    ASSUME IInv, NEW p \in Procs, DeleteRows(p)
    PROVE  IInv'
<1> DEFINE o == bill[p].org
           found == bill[p].rows \cap overrides[o]
<1>1. /\ bill[p].pc = "overrideDelete" /\ o \in Orgs /\ bill[p] \in BillRequest
      /\ overrides[o] \in SUBSET Override
  BY DEF DeleteRows, IInv, BillShape, Shape, TypeOK
<1>2. /\ UNCHANGED <<subs, history, usage, month, changes, granted, unbounded, faults>>
      /\ RegStands
  BY DEF DeleteRows, regVars, RegStands, IInv, TypeOK, RegTypeOK
<1>3. faults' \in Nat /\ faults <= faults'
  BY <1>2 DEF RegStands
<1>4. CASE bill[p].value = None
  <2>1. /\ Replaces(p, NoRequest)
        /\ overrides' = [overrides EXCEPT ![o] = @ \ found]
    BY <1>4, NoRequestShape DEF DeleteRows, Finish, Move, Replaces
  <2>2. /\ overrides' \in [Orgs -> SUBSET Override]
        /\ \A q \in Orgs: overrides'[q] \subseteq overrides[q]
    BY <1>1, <2>1 DEF IInv, TypeOK
  <2>3. TypeOK' /\ RegInv' /\ BillShape'
    BY <1>2, <2>1, <2>2, TypeFrame DEF IInv, TypeOK
  <2>4. UpdatesHaveRow' /\ OneCreation' /\ HistoryMissesOnlyFailures'
    BY <1>1, <1>2, <1>3, <2>1, NoRequestShape, HistoryFrame
  <2>6. OneOverrideEach'
    <3>1. bill'[p] = NoRequest /\ \A q \in Procs: q # p => bill'[q] = bill[q]
      BY <2>1, Replacing
    <3>2. \A q \in Procs: bill[q].pc # "idle" => bill[q].org \in Orgs
      BY DEF IInv, BillShape, Shape
    <3> QED
      BY <2>2, <3>1, <3>2, NoRequestShape DEF IInv, OneOverrideEach
  <2> QED
    BY <2>3, <2>4, <2>6 DEF IInv
<1>5. CASE bill[p].value # None
  <2> DEFINE r == [bill[p] EXCEPT !.pc = "overrideCommit", !.rows = found]
  <2>1. /\ r \in BillRequest /\ r.pc = "overrideCommit" /\ r.org = o /\ r.rows = found
        /\ r.value \in Limit
    BY <1>1, <1>5 DEF BillRequest
  <2>2. Replaces(p, r) /\ UNCHANGED overrides
    BY <1>1, <1>5, <2>1 DEF DeleteRows, Move, Replaces, Shape
  <2>3. TypeOK' /\ RegInv' /\ BillShape'
    BY <1>2, <2>2, TypeFrame DEF IInv, TypeOK
  <2>4. UpdatesHaveRow' /\ OneCreation' /\ HistoryMissesOnlyFailures'
    BY <1>1, <1>2, <1>3, <2>1, <2>2, HistoryFrame
  <2>6. OneOverrideEach'
    <3>1. bill'[p] = r /\ \A q \in Procs: q # p => bill'[q] = bill[q]
      BY <2>2, Replacing
    <3>2. \A v \in overrides[o]: v.by = p => v \in found
      BY <1>1 DEF IInv, OneOverrideEach
    <3>3. ASSUME NEW q \in Procs, bill'[q].pc \in {"overrideDelete", "overrideCommit"},
                 NEW v \in overrides[bill'[q].org], v.by = q
          PROVE  v \in bill'[q].rows
      <4>1. CASE q = p
        BY <2>1, <3>1, <3>2, <3>3, <4>1
      <4>2. CASE q # p
        BY <3>1, <3>3, <4>2 DEF IInv, OneOverrideEach
      <4> QED
        BY <4>1, <4>2
    <3> QED
      BY <2>2, <3>3 DEF IInv, OneOverrideEach
  <2> QED
    BY <2>3, <2>4, <2>6 DEF IInv
<1> QED
  BY <1>4, <1>5

LEMMA CommitOverrideKeeps ==
    ASSUME IInv, NEW p \in Procs, CommitOverride(p)
    PROVE  IInv'
<1> DEFINE o == bill[p].org
           new == [id |-> bill[p].id, by |-> p, value |-> bill[p].value]
<1>1. /\ bill[p].pc = "overrideCommit" /\ o \in Orgs /\ bill[p] \in BillRequest
      /\ bill[p].value \in Limit /\ overrides[o] \in SUBSET Override
  BY DEF CommitOverride, IInv, BillShape, Shape, TypeOK
<1>2. new \in Override /\ new.by = p
  BY <1>1 DEF BillRequest, Override
<1>3. /\ UNCHANGED <<subs, history, usage, month, changes, granted, unbounded, faults>>
      /\ RegStands
      /\ Replaces(p, NoRequest)
      /\ overrides' = [overrides EXCEPT ![o] = (overrides[o] \ bill[p].rows) \cup {new}]
  BY NoRequestShape DEF CommitOverride, AfterSet, Finish, Move, Replaces, regVars, RegStands,
                        IInv, TypeOK, RegTypeOK
<1>4. /\ overrides' \in [Orgs -> SUBSET Override]
      /\ overrides'[o] = (overrides[o] \ bill[p].rows) \cup {new}
      /\ \A q \in Orgs: q # o => overrides'[q] = overrides[q]
  BY <1>1, <1>2, <1>3 DEF IInv, TypeOK
<1>5. faults' \in Nat /\ faults <= faults'
  BY <1>3 DEF RegStands
<1>6. TypeOK' /\ RegInv' /\ BillShape'
  BY <1>3, <1>4, TypeFrame DEF IInv, TypeOK
<1>7. UpdatesHaveRow' /\ OneCreation' /\ HistoryMissesOnlyFailures'
  BY <1>1, <1>3, <1>5, NoRequestShape, HistoryFrame
<1>9. OneOverrideEach'
  <2>1. bill'[p] = NoRequest /\ \A q \in Procs: q # p => bill'[q] = bill[q]
    BY <1>3, Replacing
  <2>2. \A v \in overrides[o] \ bill[p].rows: v.by # p
    BY <1>1 DEF IInv, OneOverrideEach
  <2>3. \A q \in Orgs: \A v, w \in overrides'[q]: v.by = w.by => v = w
    <3>1. \A v, w \in overrides'[o]: v.by = w.by => v = w
      BY <1>1, <1>2, <1>4, <2>2 DEF IInv, OneOverrideEach
    <3> QED
      BY <1>4, <3>1 DEF IInv, OneOverrideEach
  <2>4. ASSUME NEW q \in Procs, bill'[q].pc \in {"overrideDelete", "overrideCommit"},
               NEW v \in overrides'[bill'[q].org], v.by = q
        PROVE  v \in bill'[q].rows
    <3>1. q # p /\ bill'[q] = bill[q] /\ bill[q].org \in Orgs
      BY <2>1, <2>4, NoRequestShape DEF IInv, BillShape, Shape
    <3>2. v \in overrides[bill[q].org]
      BY <1>2, <1>4, <2>4, <3>1
    <3> QED
      BY <2>4, <3>1, <3>2 DEF IInv, OneOverrideEach
  <2> QED
    BY <2>3, <2>4 DEF OneOverrideEach
<1> QED
  BY <1>6, <1>7, <1>9 DEF IInv

-------------------------------------------------------------------------------

LEMMA LimitsAreLimits ==
    ASSUME TypeOK, NEW o \in Orgs PROVE LimitsOf(o) \subseteq Limit
<1>1. overrides[o] \in SUBSET Override /\ (subs[o] # None => subs[o] \in Subscription)
  BY DEF TypeOK
<1>2. PlanLimit \in [Plans -> Limit] /\ FreePlan \in Plans
  BY BillingAssumption
<1>3. \A v \in overrides[o]: v.value \in Limit
  BY <1>1 DEF Override
<1>4. subs[o] # None => subs[o].plan \in Plans
  BY <1>1 DEF Subscription
<1> QED
  BY <1>2, <1>3, <1>4 DEF LimitsOf

LEMMA BeginCountKeeps ==
    ASSUME IInv, NEW p \in Procs, NEW o \in Orgs, NEW delta \in Deltas,
           NEW limit \in LimitsOf(o), BeginCount(p, o, delta, limit)
    PROVE  IInv'
<1> DEFINE r == [NoRequest EXCEPT !.pc = IF limit = Unlimited THEN "increment" ELSE "usage",
                    !.org = o, !.delta = delta, !.value = limit]
<1>1. limit \in Limit /\ (limit \in Nat \/ limit = Unlimited) /\ delta \in Nat
  BY LimitsAreLimits, BillingAssumption DEF IInv, Limit
<1>2. /\ r.pc = (IF limit = Unlimited THEN "increment" ELSE "usage")
      /\ r.org = o /\ r.value = limit /\ r.delta = delta
      /\ r.pc \in {"usage", "increment"}
  BY DEF NoRequest
<1>3. r \in BillRequest
  <2> DEFINE s(pc) == [NoRequest EXCEPT !.pc = pc, !.org = o, !.delta = delta, !.value = limit]
  <2>1. s("increment") \in BillRequest /\ s("usage") \in BillRequest
    BY <1>1 DEF NoRequest, BillRequest
  <2>2. r = s("increment") \/ r = s("usage")
    OBVIOUS
  <2> QED
    BY <2>1, <2>2
<1>4. Shape(r)
  <2> HIDE DEF r
  <2>1. r.pc = "usage" => limit \in Nat
    BY <1>1, <1>2
  <2> QED
    BY <1>1, <1>2, <1>3, <2>1 DEF Shape
<1>5. /\ Replaces(p, r) /\ RegStands /\ faults' = faults /\ bill[p].pc = "idle"
      /\ UNCHANGED <<subs, history, overrides, usage, month, changes>>
      /\ granted' = [granted EXCEPT ![o] = IF limit \in Nat /\ limit > @ THEN limit ELSE @]
      /\ unbounded' = IF limit = Unlimited THEN unbounded \cup {o} ELSE unbounded
  BY <1>4, BeginStands DEF BeginCount, Move, Replaces, billTables
<1>6. granted \in [Orgs -> Nat] /\ unbounded \subseteq Orgs
  BY DEF IInv, TypeOK
<1>7. /\ granted' \in [Orgs -> Nat] /\ unbounded' \subseteq Orgs
      /\ \A q \in Orgs: granted[q] <= granted'[q]
      /\ limit \in Nat => limit <= granted'[o]
  BY <1>5, <1>6
<1>8. TypeOK' /\ RegInv' /\ BillShape'
  BY <1>5, <1>7, TypeFrame DEF IInv, TypeOK
<1>9. faults' \in Nat /\ faults <= faults'
  BY <1>5 DEF RegStands
<1>10. /\ r.pc # "history" /\ r.pc # "update" /\ bill[p].pc # "history"
       /\ r.pc \notin {"overrideDelete", "overrideCommit"}
  BY <1>2, <1>5
<1>11. /\ UpdatesHaveRow' /\ OneCreation' /\ HistoryMissesOnlyFailures'
       /\ OneOverrideEach'
  <2> HIDE DEF r
  <2> QED
    BY <1>5, <1>9, <1>10, HistoryFrame, OverrideFrame
<1> QED
  BY <1>8, <1>11 DEF IInv

LEMMA ReadUsageKeeps ==
    ASSUME IInv, NEW p \in Procs, ReadUsage(p)
    PROVE  IInv'
<1>1. PICK o \in Orgs, n \in Nat, d \in Deltas:
        /\ bill[p].pc = "usage" /\ bill[p].org = o
        /\ bill[p].value = n /\ bill[p].delta = d
  BY DEF ReadUsage, IInv, BillShape, Shape
<1>2. /\ UNCHANGED <<subs, history, overrides, usage, month, changes, granted, unbounded, faults>>
      /\ RegStands
  BY DEF ReadUsage, regVars, billTables, RegStands, IInv, TypeOK, RegTypeOK
<1>3. faults' \in Nat /\ faults <= faults'
  BY <1>2 DEF RegStands
<1>4. CASE ~Fits(usage[o][month], d, n)
  <2>1. Replaces(p, NoRequest)
    BY <1>1, <1>4, NoRequestShape DEF ReadUsage, Finish, Move, Replaces
  <2>2. TypeOK' /\ RegInv' /\ BillShape'
    BY <1>2, <2>1, TypeFrame DEF IInv, TypeOK
  <2>3. UpdatesHaveRow' /\ OneCreation' /\ HistoryMissesOnlyFailures'
    BY <1>1, <1>2, <1>3, <2>1, NoRequestShape, HistoryFrame
  <2>4. OneOverrideEach'
    BY <1>2, <2>1, NoRequestShape, OverrideFrame
  <2> QED
    BY <2>2, <2>3, <2>4 DEF IInv
<1>5. CASE Fits(usage[o][month], d, n)
  <2> DEFINE r == [bill[p] EXCEPT !.pc = "increment", !.value = None]
  <2>1. bill[p] \in BillRequest
    BY DEF IInv, BillShape, Shape
  <2>2. /\ r \in BillRequest /\ r.pc = "increment" /\ r.org = o /\ r.delta = d
    BY <1>1, <2>1 DEF BillRequest
  <2>3. Replaces(p, r)
    BY <1>1, <1>5, <2>2 DEF ReadUsage, Move, Replaces, Shape
  <2> HIDE DEF r
  <2>4. TypeOK' /\ RegInv' /\ BillShape'
    BY <1>2, <2>3, TypeFrame DEF IInv, TypeOK
  <2>5. UpdatesHaveRow' /\ OneCreation' /\ HistoryMissesOnlyFailures'
    BY <1>1, <1>2, <1>3, <2>2, <2>3, HistoryFrame
  <2>6. OneOverrideEach'
    BY <1>2, <2>2, <2>3, OverrideFrame
  <2> QED
    BY <2>4, <2>5, <2>6 DEF IInv
<1> QED
  BY <1>4, <1>5

LEMMA IncrementKeeps ==
    ASSUME IInv, NEW p \in Procs, Increment(p)
    PROVE  IInv'
<1>1. PICK o \in Orgs, d \in Deltas:
        bill[p].pc = "increment" /\ bill[p].org = o /\ bill[p].delta = d
  BY DEF Increment, IInv, BillShape, Shape
<1> DEFINE u == usage[o][month] + d
<1>2. /\ UNCHANGED <<subs, history, overrides, month, changes, granted, unbounded, faults>>
      /\ RegStands /\ Replaces(p, NoRequest)
      /\ usage' = [usage EXCEPT ![o][month] = @ + d]
  BY <1>1, NoRequestShape DEF Increment, Finish, Move, Replaces, regVars, RegStands,
                              IInv, TypeOK, RegTypeOK
<1>3. faults' \in Nat /\ faults <= faults'
  BY <1>2 DEF RegStands
<1>4. usage \in [Orgs -> [Months -> Nat]] /\ month \in Months /\ d \in Nat
  BY LargestDeltaIsLargest DEF IInv, TypeOK
<1>5. /\ usage' \in [Orgs -> [Months -> Nat]] /\ u \in Nat
      /\ usage'[o][month] = u
      /\ \A m \in Months: m # month => usage'[o][m] = usage[o][m]
      /\ \A a \in Orgs: a # o => usage'[a] = usage[a]
  BY <1>2, <1>4
<1>6. TypeOK' /\ RegInv' /\ BillShape'
  BY <1>2, <1>5, TypeFrame DEF IInv, TypeOK
<1>7. UpdatesHaveRow' /\ OneCreation' /\ HistoryMissesOnlyFailures'
  BY <1>1, <1>2, <1>3, NoRequestShape, HistoryFrame
<1>8. OneOverrideEach'
  BY <1>2, NoRequestShape, OverrideFrame
<1> QED
  BY <1>6, <1>7, <1>8 DEF IInv

\* A new month: what is under way will be counted from nothing.
LEMMA TickKeeps ==
    ASSUME IInv, Tick
    PROVE  IInv'
<1>1. /\ month' = month + 1 /\ month' \in Months /\ month \in Months
      /\ UNCHANGED <<regTables, reg, begun, faults, answered>>
      /\ UNCHANGED <<subs, history, overrides, usage, bill, changes, granted, unbounded>>
  BY BillingAssumption DEF Tick, regVars, billTables, Months, IInv, TypeOK
<1>2. RegInv'
  BY <1>1, RegFrame DEF IInv, TypeOK, RegTypeOK
<1>3. TypeOK'
  BY <1>1, <1>2 DEF IInv, TypeOK, RegInv
<1>4. BillShape' /\ UpdatesHaveRow' /\ OneOverrideEach'
  BY <1>1 DEF IInv, BillShape, UpdatesHaveRow, OneOverrideEach
<1>5. \A o: InHistory(o)' = InHistory(o)
  BY <1>1 DEF InHistory
<1>6. \A o: Creations(o)' = Creations(o) /\ Creating(o)' = Creating(o)
  BY <1>1, <1>5 DEF Creations, Creating
<1>7. OneCreation'
  BY <1>1, <1>6 DEF IInv, OneCreation
<1>8. HistoryMissesOnlyFailures'
  BY <1>1, <1>5 DEF IInv, HistoryMissesOnlyFailures
<1> QED
  BY <1>2, <1>3, <1>4, <1>7, <1>8 DEF IInv

LEMMA BillFailKeeps ==
    ASSUME IInv, NEW p \in Procs, BillFail(p)
    PROVE  IInv'
<1>1. /\ UNCHANGED <<subs, history, overrides, usage, month, changes, granted, unbounded>>
      /\ RegStands /\ faults' = faults + 1 /\ faults \in Nat
      /\ Replaces(p, NoRequest)
  BY NoRequestShape DEF BillFail, Fails, Finish, Move, Replaces, billTables, RegStands,
                        IInv, TypeOK, RegTypeOK
<1>2. faults' \in Nat /\ faults <= faults' /\ faults + 1 <= faults'
  BY <1>1
<1>3. TypeOK' /\ RegInv' /\ BillShape'
  BY <1>1, TypeFrame DEF IInv, TypeOK
<1>4. UpdatesHaveRow' /\ OneCreation' /\ HistoryMissesOnlyFailures'
  BY <1>1, <1>2, NoRequestShape, HistoryFrame
<1>5. OneOverrideEach'
  BY <1>1, NoRequestShape, OverrideFrame
<1> QED
  BY <1>3, <1>4, <1>5 DEF IInv

\* The tables and requests of billing stand still and no failure is forgotten.
LEMMA BillingStands ==
    ASSUME IInv, UNCHANGED billVars, RegInv', faults' \in Nat, faults <= faults'
    PROVE  IInv'
<1>1. UNCHANGED <<subs, history, overrides, usage, month, bill, changes, granted, unbounded>>
  BY DEF billVars, billTables
<1>2. TypeOK'
  BY <1>1 DEF IInv, TypeOK, RegInv
<1>3. BillShape' /\ UpdatesHaveRow' /\ OneOverrideEach'
  BY <1>1 DEF IInv, BillShape, UpdatesHaveRow, OneOverrideEach
<1>4. \A o: InHistory(o)' = InHistory(o)
  BY <1>1 DEF InHistory
<1>5. \A o: Creations(o)' = Creations(o) /\ Creating(o)' = Creating(o)
  BY <1>1, <1>4 DEF Creations, Creating
<1>6. OneCreation'
  BY <1>1, <1>5 DEF IInv, OneCreation
<1>7. HistoryMissesOnlyFailures'
  <2> SUFFICES ASSUME NEW o \in Orgs
               PROVE  /\ Len(history[o]) + Cardinality(InHistory(o)) <= changes[o]
                      /\ changes[o] <= Len(history[o]) + Cardinality(InHistory(o)) + faults'
    BY <1>1, <1>4 DEF HistoryMissesOnlyFailures
  <2>1. /\ Len(history[o]) \in Nat /\ changes[o] \in Nat /\ faults \in Nat
        /\ Cardinality(InHistory(o)) \in Nat
    BY ProcsAreCounted DEF IInv, TypeOK, RegTypeOK
  <2> QED
    BY <2>1 DEF IInv, HistoryMissesOnlyFailures
<1> QED
  BY <1>2, <1>3, <1>6, <1>7 DEF IInv

LEMMA RegisterKeeps ==
    ASSUME IInv, NEW p \in Procs, Register(p)
    PROVE  IInv'
<1>1. RegInv' /\ UNCHANGED billVars
  BY RegStepKeepsRegInv DEF Register, IInv
<1>2. faults' \in Nat /\ faults <= faults'
  <2>1. faults \in Nat
    BY DEF IInv, TypeOK, RegTypeOK
  <2>2. faults' = faults \/ faults' = faults + 1
    BY DEF Register, RegStep, CheckEmail, LookUpSlug, InsertOrg, OrgRefused, InsertUser,
           InsertMember, RegFail, RegFails, Answer
  <2> QED
    BY <2>1, <2>2
<1> QED
  BY <1>1, <1>2, BillingStands

LEMMA NextIInv ==
    ASSUME IInv, [Next]_vars
    PROVE  IInv'
<1>1. ASSUME NEW p \in Procs, Register(p) PROVE IInv'
  BY <1>1, RegisterKeeps
<1>2. ASSUME NEW p \in Procs, BillStep(p) PROVE IInv'
  <2>1. ASSUME NEW o \in Orgs, NEW plan \in Plans, NEW status \in {"active", "trialing"},
               BeginCreate(p, o, plan, status)
        PROVE  IInv'
    BY <2>1, BeginCreateKeeps
  <2>2. ASSUME NEW o \in Orgs, NEW plan \in Plans, BeginRewrite(p, o, Changed(subs[o], plan))
        PROVE  IInv'
    <3>1. subs[o] \in Subscription => Changed(subs[o], plan) \in Subscription
      BY DEF Changed, Subscription, Status
    <3> QED
      BY <2>2, <3>1, BeginRewriteKeeps
  <2>3. ASSUME NEW o \in Orgs, BeginRewrite(p, o, Canceled(subs[o]))
        PROVE  IInv'
    <3>1. subs[o] \in Subscription => Canceled(subs[o]) \in Subscription
      BY DEF Canceled, Subscription, Status
    <3> QED
      BY <2>3, <3>1, BeginRewriteKeeps
  <2>4. ASSUME InsertSubscription(p) \/ UpdateRow(p) \/ WriteHistory(p)
        PROVE  IInv'
    BY <2>4, InsertSubscriptionKeeps, UpdateRowKeeps, WriteHistoryKeeps
  <2>5. ASSUME NEW o \in Orgs, NEW v \in Values \cup {None}, BeginOverride(p, o, v)
        PROVE  IInv'
    BY <2>5, BeginOverrideKeeps
  <2>6. ASSUME DeleteRows(p) \/ CommitOverride(p)
        PROVE  IInv'
    BY <2>6, DeleteRowsKeeps, CommitOverrideKeeps
  <2>7. ASSUME NEW o \in Orgs, NEW delta \in Deltas, NEW limit \in LimitsOf(o),
               BeginCount(p, o, delta, limit)
        PROVE  IInv'
    BY <2>7, BeginCountKeeps
  <2>8. ASSUME ReadUsage(p) \/ Increment(p) \/ BillFail(p)
        PROVE  IInv'
    BY <2>8, ReadUsageKeeps, IncrementKeeps, BillFailKeeps
  <2> QED
    BY <1>2, <2>1, <2>2, <2>3, <2>4, <2>5, <2>6, <2>7, <2>8 DEF BillStep
<1>3. ASSUME UNCHANGED vars PROVE IInv'
  <2>1. UNCHANGED billVars /\ UNCHANGED <<regTables, reg, begun, faults, answered>>
    BY <1>3 DEF vars, regVars
  <2>2. begun' \in Nat /\ faults' \in Nat /\ faults <= faults'
    BY <2>1 DEF IInv, TypeOK, RegTypeOK
  <2>3. RegInv'
    BY <2>1, <2>2, RegFrame DEF IInv
  <2> QED
    BY <2>1, <2>2, <2>3, BillingStands
<1> QED
  BY <1>1, <1>2, <1>3, TickKeeps DEF Next, Served

(***************************************************************************)
(* All of the parts above hold of everything registrations and billing do. *)
(***************************************************************************)
THEOREM InductiveInvariant == Spec => []IInv
<1> QED
  BY InitIInv, NextIInv, PTL DEF Spec

-------------------------------------------------------------------------------
(* The theorems *)

(***************************************************************************)
(* Tables, requests and counters keep their types.                         *)
(***************************************************************************)
THEOREM TypeCorrect == Spec => []TypeOK
<1>1. IInv => TypeOK
  BY DEF IInv
<1> QED
  BY <1>1, InductiveInvariant, PTL

(***************************************************************************)
(* Whoever was answered 201 by RegisterUser finds user and mapping at      *)
(* LoginUser.                                                              *)
(***************************************************************************)
THEOREM RegisteredCanLogin == Spec => []AnsweredCanLogin
<1>1. IInv => AnsweredCanLogin
  BY DEF IInv, RegInv
<1> QED
  BY <1>1, InductiveInvariant, PTL

(***************************************************************************)
(* No interleaving of registrations makes two users share an organization, *)
(* two organizations a slug, or a mapping lead elsewhere.                  *)
(***************************************************************************)
THEOREM RegistrationsKeepTenantsApart == Spec => []TenantsAreSeparate
<1>1. IInv => TenantsAreSeparate
  BY DEF IInv, RegInv
<1> QED
  BY <1>1, InductiveInvariant, PTL

(***************************************************************************)
(* Addresses are locked out by failed statements only, one each.           *)
(***************************************************************************)
THEOREM RacesLockNobodyOut == Spec => []LockoutsTakeFaults
<1>1. IInv => LockoutsTakeFaults
  BY DEF IInv, RegInv
<1> QED
  BY <1>1, InductiveInvariant, PTL

(***************************************************************************)
(* However many requests find no subscription, one of them creates it.     *)
(***************************************************************************)
THEOREM SubscriptionIsCreatedOnce == Spec => []ProvisionedOnce
<1>1. IInv => ProvisionedOnce
  <2> SUFFICES ASSUME IInv, NEW o \in Orgs
               PROVE  Cardinality(Creations(o)) + Cardinality(Creating(o)) <= 1
    BY DEF ProvisionedOnce, Creations, Creating
  <2>1. /\ \A i, j \in Creations(o): i = j
        /\ \A p, q \in Creating(o): p = q
        /\ Creations(o) = {} \/ Creating(o) = {}
    BY DEF IInv, OneCreation
  <2>2. Cardinality(Creations(o)) \in {0, 1}
    BY <2>1, AtMostOne
  <2>3. Cardinality(Creating(o)) \in {0, 1}
    BY <2>1, AtMostOne
  <2>4. Cardinality(Creations(o)) = 0 \/ Cardinality(Creating(o)) = 0
    BY <2>1, FS_EmptySet
  <2> QED
    BY <2>2, <2>3, <2>4
<1> QED
  BY <1>1, InductiveInvariant, PTL

(***************************************************************************)
(* The history falls behind the subscriptions by failures only.            *)
(***************************************************************************)
THEOREM HistoryIsAccountedFor == Spec => []HistoryMissesOnlyFailures
<1>1. IInv => HistoryMissesOnlyFailures
  BY DEF IInv
<1> QED
  BY <1>1, InductiveInvariant, PTL

(***************************************************************************)
(* Overlapping calls of SetOverride leave one row per process at most.     *)
(***************************************************************************)
THEOREM OverridesAreBounded == Spec => []OverridesDoNotPileUp
<1>1. IInv => OverridesDoNotPileUp
  <2> SUFFICES ASSUME IInv, NEW o \in Orgs
               PROVE  Cardinality(overrides[o]) <= Cardinality(Procs)
    BY DEF OverridesDoNotPileUp
  <2> DEFINE f == [v \in overrides[o] |-> v.by]
  <2>1. /\ \A v \in overrides[o]: v.by \in Procs
        /\ \A v, w \in overrides[o]: v.by = w.by => v = w
    BY DEF IInv, TypeOK, Override, OneOverrideEach
  <2>2. f \in Injection(overrides[o], Procs)
    BY <2>1 DEF Injection, IsInjective
  <2> HIDE DEF f
  <2> QED
    BY <2>2, ProcsAreCounted, FS_Injection
<1> QED
  BY <1>1, InductiveInvariant, PTL

-------------------------------------------------------------------------------
(* Registration implements Tenants: each of its statements is a step of    *)
(* Tenants or changes nothing that Tenants knows.                          *)

Users == {e \in Emails: CanLogin(e)}

PromisedStep == [Promised!Next]_(Promised!vars)

LEMMA RegInitIsPromised == RegInit => Promised!Init
BY DEF RegInit, Promised!Init, CanLogin

\* Only the two INSERTs of a user and a mapping bear on who can log in.
LEMMA PromisedStands ==
    ASSUME UNCHANGED <<regTables, answered>>
    PROVE  PromisedStep
BY DEF regTables, PromisedStep, Promised!vars, CanLogin

LEMMA InsertOrgFounds ==
    ASSUME RegInv, NEW p \in Procs, NEW o \in Orgs, InsertOrg(p, o)
    PROVE  PromisedStep
<1>1. reg[p].slug \in Slug /\ \A q \in Orgs: orgs[q] # reg[p].slug
  BY DEF RegInv, RegShape, InsertOrg, Taken
<1>2. Users' = Users
  BY DEF InsertOrg, Users, CanLogin
<1>3. Promised!Found(o, reg[p].slug)
  BY <1>1, <1>2 DEF InsertOrg, Promised!Found, Users
<1> QED
  BY <1>1, <1>3 DEF PromisedStep, Promised!Next

LEMMA InsertUserMovesIn ==
    ASSUME RegInv, NEW p \in Procs, InsertUser(p), users[reg[p].email] = None
    PROVE  PromisedStep
<1> DEFINE a == reg[p].email
           o == reg[p].org
<1>1. a \in Emails /\ o \in Orgs /\ orgs[o] # None /\ \A e \in Emails: users[e] # o
  BY DEF RegInv, RegShape, OwnOrg, InsertUser
<1>2. users' = [users EXCEPT ![a] = o] /\ UNCHANGED <<orgs, members, answered>>
  BY DEF InsertUser
<1>3. ASSUME NEW e \in Emails PROVE CanLogin(e)' <=> CanLogin(e)
  <2>1. CASE e # a
    BY <1>2, <2>1 DEF CanLogin, RegInv, RegTypeOK
  <2>2. CASE e = a
    <3>1. users[a] = None /\ users'[a] = o
      BY <1>1, <1>2 DEF RegInv, RegTypeOK
    <3>2. <<o, a>> \notin members
      BY <1>1, <3>1, RegistrationAssumption DEF RegInv, TenantsAreSeparate
    <3> QED
      BY <1>2, <2>2, <3>1, <3>2 DEF CanLogin
  <2> QED
    BY <2>1, <2>2
<1>4. Users' = Users
  BY <1>3 DEF Users
<1>5. Promised!MoveIn(a, o)
  BY <1>1, <1>2, <1>4 DEF Promised!MoveIn, Users
<1> QED
  BY <1>1, <1>5 DEF PromisedStep, Promised!Next

LEMMA InsertMemberActivates ==
    ASSUME RegInv, NEW p \in Procs, InsertMember(p)
    PROVE  PromisedStep
<1> DEFINE a == reg[p].email
           o == reg[p].org
<1>1. a \in Emails /\ o \in Orgs /\ users[a] = o /\ o # None
  BY RegistrationAssumption DEF RegInv, RegShape, OwnRows, InsertMember
<1>2. members' = members \cup {<<o, a>>} /\ UNCHANGED <<orgs, users, answered>>
  BY DEF InsertMember
<1>3. \A e \in Emails: CanLogin(e)' <=> CanLogin(e) \/ e = a
  BY <1>1, <1>2 DEF CanLogin
<1>4. Users' = Users \cup {a}
  BY <1>1, <1>3 DEF Users
<1>5. CASE a \in Users
  <2>1. Users' = Users
    BY <1>4, <1>5
  <2> QED
    BY <1>2, <2>1 DEF PromisedStep, Promised!vars, Users
<1>6. CASE a \notin Users
  <2>1. Promised!Activate(a)
    BY <1>1, <1>2, <1>4, <1>6 DEF Promised!Activate, Users
  <2> QED
    BY <1>1, <2>1 DEF PromisedStep, Promised!Next
<1> QED
  BY <1>5, <1>6

LEMMA AnswerConfirms ==
    ASSUME RegInv, NEW p \in Procs, Answer(p)
    PROVE  PromisedStep
<1> DEFINE a == reg[p].email
<1>1. a \in Emails /\ a \in Users
  BY DEF RegInv, RegShape, OwnRows, Answer, Users
<1>2. answered' = answered \cup {a} /\ UNCHANGED regTables
  BY DEF Answer
<1>3. Users' = Users
  BY <1>2 DEF regTables, Users, CanLogin
<1>4. CASE a \in answered
  <2>1. answered' = answered
    BY <1>2, <1>4
  <2> QED
    BY <1>2, <2>1, PromisedStands
<1>5. CASE a \notin answered
  <2>1. Promised!Confirm(a)
    BY <1>1, <1>2, <1>3, <1>5 DEF Promised!Confirm, Users, regTables
  <2> QED
    BY <1>1, <2>1 DEF PromisedStep, Promised!Next
<1> QED
  BY <1>4, <1>5

LEMMA RegStepIsPromised ==
    ASSUME RegInv, NEW p \in Procs, RegStep(p)
    PROVE  PromisedStep
<1>1. ASSUME NEW e \in Emails, NEW n \in Names, CheckEmail(p, e, n) PROVE PromisedStep
  BY <1>1, PromisedStands DEF CheckEmail
<1>2. CASE LookUpSlug(p)
  BY <1>2, PromisedStands DEF LookUpSlug
<1>3. ASSUME NEW o \in Orgs, InsertOrg(p, o) PROVE PromisedStep
  BY <1>3, InsertOrgFounds
<1>4. CASE OrgRefused(p)
  BY <1>4, PromisedStands DEF OrgRefused
<1>5. CASE InsertUser(p)
  <2>1. CASE users[reg[p].email] = None
    BY <1>5, <2>1, InsertUserMovesIn
  <2>2. CASE users[reg[p].email] # None
    BY <1>5, <2>2, PromisedStands DEF InsertUser, regTables
  <2> QED
    BY <2>1, <2>2
<1>6. CASE InsertMember(p)
  BY <1>6, InsertMemberActivates
<1>7. CASE RegFail(p)
  BY <1>7, PromisedStands DEF RegFail, RegFails
<1>8. CASE Answer(p)
  BY <1>8, AnswerConfirms
<1> QED
  BY <1>1, <1>2, <1>3, <1>4, <1>5, <1>6, <1>7, <1>8 DEF RegStep

\* Billing touches none of the tables of registration.
LEMMA NextIsPromised ==
    ASSUME IInv, [Next]_vars
    PROVE  PromisedStep
<1>1. ASSUME NEW p \in Procs, Register(p) PROVE PromisedStep
  BY <1>1, RegStepIsPromised DEF Register, IInv
<1>2. ASSUME NEW p \in Procs, BillStep(p) PROVE PromisedStep
  <2>1. UNCHANGED <<regTables, answered>>
    BY <1>2 DEF BillStep, BeginCreate, BeginRewrite, InsertSubscription, UpdateRow, WriteHistory,
         BeginOverride, DeleteRows, CommitOverride, BeginCount, ReadUsage, Increment, BillFail,
         Fails, Begin, regVars
  <2> QED
    BY <2>1, PromisedStands
<1>3. CASE Tick \/ UNCHANGED vars
  BY <1>3, PromisedStands DEF Tick, vars, regVars
<1> QED
  BY <1>1, <1>2, <1>3 DEF Next, Served

(***************************************************************************)
(* RegisterUser, for all its separate statements, races and failures,      *)
(* behaves as the atomic Tenants: what billing does besides changes none   *)
(* of it.                                                                  *)
(***************************************************************************)
THEOREM RegistrationImplementsTenants == Spec => ImplementsTenants
<1>1. Init => Promised!Init
  BY RegInitIsPromised DEF Init
<1>2. IInv /\ [Next]_vars => PromisedStep
  BY NextIsPromised
<1> QED
  BY <1>1, <1>2, InductiveInvariant, PTL DEF Spec, ImplementsTenants, Promised!Spec, PromisedStep

-------------------------------------------------------------------------------
(* Usage.  How far a counter can pass its limit depends on how many        *)
(* requests of its organization are between their evaluation and their     *)
(* increment at a time: no bound on the processes is needed for that.      *)

Counts(o) == {p \in Procs: bill[p].pc \in {"usage", "increment"} /\ bill[p].org = o}

CountAtMost(K) == \A o \in Orgs: Cardinality(Counts(o)) <= K

Counting(o) == {p \in Procs: bill[p].pc = "increment" /\ bill[p].org = o}

Cap(o, K) == granted[o] + LargestDelta * (K - 1)

\* The bound is not inductive: nothing in it says how many increments are on
\* their way.  The one that was checked last has been compared with the limit;
\* each of the others counts as the largest amount.
CountingFits(o, K) ==
    Counting(o) # {} =>
        \E p \in Counting(o):
            usage[o][month] + bill[p].delta + LargestDelta * (Cardinality(Counting(o)) - 1)
                <= Cap(o, K)

UsageFits(K) ==
    \A o \in Orgs \ unbounded:
        /\ \A p \in Procs: bill[p].pc = "usage" /\ bill[p].org = o => bill[p].value <= granted[o]
        /\ \A p \in Counting(o): bill[p].delta <= granted[o]
        /\ \A m \in Months: m > month => usage[o][m] = 0
        /\ \A m \in Months: usage[o][m] <= Cap(o, K)
        /\ CountingFits(o, K)

LEMMA CountingIsFinite ==
    \A o: /\ IsFiniteSet(Counting(o)) /\ Cardinality(Counting(o)) \in Nat
          /\ IsFiniteSet(Counts(o)) /\ Cardinality(Counts(o)) \in Nat
          /\ Cardinality(Counting(o)) <= Cardinality(Counts(o))
          /\ Cardinality(Counts(o)) <= Cardinality(Procs)
<1> SUFFICES ASSUME NEW o
             PROVE  /\ IsFiniteSet(Counting(o)) /\ Cardinality(Counting(o)) \in Nat
                    /\ IsFiniteSet(Counts(o)) /\ Cardinality(Counts(o)) \in Nat
                    /\ Cardinality(Counting(o)) <= Cardinality(Counts(o))
                    /\ Cardinality(Counts(o)) <= Cardinality(Procs)
  OBVIOUS
<1>1. Counting(o) \in SUBSET Counts(o) /\ Counts(o) \in SUBSET Procs
  BY DEF Counting, Counts
<1>2. IsFiniteSet(Counts(o)) /\ Cardinality(Counts(o)) <= Cardinality(Procs)
  BY <1>1, ProcsAreCounted, FS_Subset
<1>3. IsFiniteSet(Counting(o)) /\ Cardinality(Counting(o)) <= Cardinality(Counts(o))
  BY <1>1, <1>2, FS_Subset
<1> QED
  BY <1>2, <1>3, FS_CardinalityType

LEMMA CapIsNumber ==
    ASSUME TypeOK, NEW K \in Nat \ {0}, NEW o \in Orgs PROVE Cap(o, K) \in Nat
<1>1. K - 1 \in Nat /\ LargestDelta \in Nat /\ granted[o] \in Nat
  BY LargestDeltaIsLargest DEF TypeOK
<1>2. LargestDelta * (K - 1) \in Nat
  BY <1>1
<1> QED
  BY <1>1, <1>2 DEF Cap

LEMMA InitUsage ==
    ASSUME NEW K \in Nat \ {0}, Init PROVE UsageFits(K)
<1>1. \A p \in Procs: bill[p].pc = "idle"
  BY DEF Init, NoRequest
<1>2. \A o \in Orgs: Counting(o) = {}
  BY <1>1 DEF Counting
<1>3. \A o \in Orgs: \A m \in Months: usage[o][m] = 0
  BY DEF Init
<1>4. \A o \in Orgs: Cap(o, K) >= 0
  BY InitIInv, CapIsNumber DEF IInv
<1> QED
  BY <1>1, <1>2, <1>3, <1>4 DEF UsageFits, CountingFits


\* One increment less under way, whether it was done or failed.
LEMMA CountingShrinks ==
    ASSUME IInv, NEW K \in Nat \ {0}, UsageFits(K),
           NEW p \in Procs, NEW o \in Orgs \ unbounded, p \in Counting(o),
           NEW u \in Nat, u <= usage[o][month] + bill[p].delta
    PROVE  /\ u <= Cap(o, K)
           /\ Counting(o) \ {p} # {} =>
                \E q \in Counting(o) \ {p}:
                    u + bill[q].delta + LargestDelta * (Cardinality(Counting(o) \ {p}) - 1)
                        <= Cap(o, K)
<1> DEFINE k == Cardinality(Counting(o))
<1>1. k \in Nat /\ IsFiniteSet(Counting(o)) /\ Cardinality(Counting(o) \ {p}) = k - 1
  BY CountingIsFinite, FS_RemoveElement
<1>2. \A q \in Counting(o): bill[q].delta \in Nat /\ bill[q].delta <= LargestDelta
  BY LargestDeltaIsLargest DEF IInv, BillShape, Shape, Counting
<1>3. PICK w \in Counting(o):
        usage[o][month] + bill[w].delta + LargestDelta * (k - 1) <= Cap(o, K)
  BY DEF UsageFits, CountingFits
<1>4. usage[o][month] \in Nat /\ Cap(o, K) \in Nat /\ LargestDelta \in Nat
  BY CapIsNumber, LargestDeltaIsLargest DEF IInv, TypeOK
<1>5. k >= 1
  BY <1>1, FS_EmptySet
<1>6. LargestDelta * (k - 1) \in Nat
  BY <1>1, <1>4, <1>5
<1>7. Counting(o) \ {p} # {} => k >= 2
  <2>1. IsFiniteSet(Counting(o) \ {p})
    BY <1>1, FS_RemoveElement
  <2>2. Counting(o) \ {p} # {} => k - 1 # 0
    BY <1>1, <2>1, FS_EmptySet
  <2> QED
    BY <1>1, <1>5, <2>2
<1>8. LargestDelta * (k - 1) = LargestDelta * (k - 2) + LargestDelta
  BY <1>1, <1>4
<1>9. CASE w = p
  <2>1. u <= Cap(o, K)
    BY <1>2, <1>3, <1>4, <1>6, <1>9
  <2>2. ASSUME NEW q \in Counting(o) \ {p}
        PROVE  u + bill[q].delta + LargestDelta * (k - 2) <= Cap(o, K)
    <3>1. k - 2 \in Nat
      BY <1>1, <1>7
    <3>2. LargestDelta * (k - 2) \in Nat
      BY <1>4, <3>1
    <3> QED
      BY <1>2, <1>3, <1>4, <1>8, <1>9, <3>2
  <2>3. (k - 1) - 1 = k - 2
    BY <1>1
  <2> QED
    BY <1>1, <2>1, <2>2, <2>3
<1>10. CASE w # p
  <2>1. w \in Counting(o) \ {p}
    BY <1>10
  <2>2. k - 2 \in Nat
    BY <1>1, <1>7, <2>1
  <2>3. LargestDelta * (k - 2) \in Nat
    BY <1>4, <2>2
  <2>4. u + bill[w].delta + LargestDelta * (k - 2) <= Cap(o, K)
    BY <1>2, <1>3, <1>4, <1>8, <2>3
  <2>5. u <= Cap(o, K)
    BY <1>2, <1>4, <2>3, <2>4
  <2>6. (k - 1) - 1 = k - 2
    BY <1>1
  <2> QED
    BY <1>1, <2>1, <2>4, <2>5, <2>6
<1> QED
  BY <1>9, <1>10

LEMMA UsageFrame ==
    ASSUME IInv, NEW K \in Nat \ {0}, UsageFits(K),
           NEW p \in Procs, NEW r, bill' = [bill EXCEPT ![p] = r],
           r.pc \notin {"usage", "increment"}, UNCHANGED <<usage, month, granted, unbounded>>
    PROVE  UsageFits(K)'
<1>1. bill'[p] = r /\ \A q \in Procs: q # p => bill'[q] = bill[q]
  BY DEF IInv, TypeOK
<1> SUFFICES ASSUME NEW o \in Orgs \ unbounded
             PROVE  /\ \A q \in Procs: bill'[q].pc = "usage" /\ bill'[q].org = o
                                           => bill'[q].value <= granted[o]
                    /\ \A q \in Counting(o)': bill'[q].delta <= granted[o]
                    /\ \A m \in Months: m > month => usage[o][m] = 0
                    /\ \A m \in Months: usage[o][m] <= Cap(o, K)
                    /\ CountingFits(o, K)'
  BY DEF UsageFits, Cap
<1>2. Counting(o)' = Counting(o) \ {p}
  BY <1>1 DEF Counting
<1>3. /\ \A m \in Months: m > month => usage[o][m] = 0
      /\ \A m \in Months: usage[o][m] <= Cap(o, K)
      /\ CountingFits(o, K)
      /\ \A q \in Procs: bill[q].pc = "usage" /\ bill[q].org = o => bill[q].value <= granted[o]
      /\ \A q \in Counting(o): bill[q].delta <= granted[o]
  BY DEF UsageFits
<1>4. /\ \A q \in Procs: bill'[q].pc = "usage" /\ bill'[q].org = o => bill'[q].value <= granted[o]
      /\ \A q \in Counting(o)': bill'[q].delta <= granted[o]
  BY <1>1, <1>2, <1>3 DEF Counting
<1>5. Cap(o, K)' = Cap(o, K)
  BY DEF Cap
<1>6. CountingFits(o, K)'
  <2>1. CASE p \notin Counting(o)
    <3>1. Counting(o)' = Counting(o) /\ \A q \in Counting(o): bill'[q] = bill[q]
      BY <1>1, <1>2, <2>1 DEF Counting
    <3> QED
      BY <1>3, <1>5, <3>1 DEF CountingFits
  <2>2. CASE p \in Counting(o)
    <3>1. usage[o][month] \in Nat /\ bill[p].delta \in Nat
      BY <2>2, LargestDeltaIsLargest DEF IInv, TypeOK, BillShape, Shape, Counting
    <3>2. usage[o][month] <= usage[o][month] + bill[p].delta
      BY <3>1
    <3>3. \A q \in Counting(o) \ {p}: bill'[q] = bill[q]
      BY <1>1 DEF Counting
    <3> QED
      BY <1>2, <1>5, <2>2, <3>1, <3>2, <3>3, CountingShrinks DEF CountingFits
  <2> QED
    BY <2>1, <2>2
<1> QED
  BY <1>3, <1>4, <1>6

\* A larger limit in the history only widens the bound.
LEMMA CapGrows ==
    ASSUME TypeOK, NEW K \in Nat \ {0}, NEW o \in Orgs, granted'[o] \in Nat,
           granted[o] <= granted'[o]
    PROVE  Cap(o, K) <= Cap(o, K)' /\ Cap(o, K) \in Nat /\ Cap(o, K)' \in Nat
<1>1. K - 1 \in Nat /\ LargestDelta \in Nat /\ granted[o] \in Nat
  BY LargestDeltaIsLargest DEF TypeOK
<1>2. LargestDelta * (K - 1) \in Nat
  BY <1>1
<1> QED
  BY <1>1, <1>2 DEF Cap

LEMMA BeginCountFits ==
    ASSUME IInv, IInv', NEW K \in Nat \ {0}, UsageFits(K), NEW p \in Procs, NEW o \in Orgs,
           NEW delta \in Deltas, NEW limit \in LimitsOf(o), BeginCount(p, o, delta, limit)
    PROVE  UsageFits(K)'
<1> DEFINE r == [NoRequest EXCEPT !.pc = IF limit = Unlimited THEN "increment" ELSE "usage",
                    !.org = o, !.delta = delta, !.value = limit]
<1>1. limit \in Limit /\ (limit \in Nat \/ limit = Unlimited) /\ delta \in Nat
  BY LimitsAreLimits, BillingAssumption DEF IInv, Limit
<1>2. /\ r.pc = (IF limit = Unlimited THEN "increment" ELSE "usage")
      /\ r.org = o /\ r.value = limit /\ r.delta = delta
  BY DEF NoRequest
<1>3. /\ bill' = [bill EXCEPT ![p] = r] /\ bill[p].pc = "idle"
      /\ UNCHANGED <<usage, month>>
      /\ granted' = [granted EXCEPT ![o] = IF limit \in Nat /\ limit > @ THEN limit ELSE @]
      /\ unbounded' = IF limit = Unlimited THEN unbounded \cup {o} ELSE unbounded
  BY DEF BeginCount, Begin, Move, billTables
<1>4. /\ granted \in [Orgs -> Nat] /\ granted' \in [Orgs -> Nat] /\ unbounded \subseteq Orgs
      /\ bill \in [Procs -> BillRequest]
  BY DEF IInv, TypeOK
<1> HIDE DEF r
<1>5. /\ \A q \in Orgs: granted[q] <= granted'[q]
      /\ limit \in Nat => limit <= granted'[o]
  BY <1>1, <1>3, <1>4
<1>6. bill'[p] = r /\ \A q \in Procs: q # p => bill'[q] = bill[q]
  BY <1>3, <1>4
<1> SUFFICES ASSUME NEW a \in Orgs \ unbounded'
             PROVE  /\ \A q \in Procs: bill'[q].pc = "usage" /\ bill'[q].org = a
                                           => bill'[q].value <= granted'[a]
                    /\ \A q \in Counting(a)': bill'[q].delta <= granted'[a]
                    /\ \A m \in Months: m > month => usage[a][m] = 0
                    /\ \A m \in Months: usage[a][m] <= Cap(a, K)'
                    /\ CountingFits(a, K)'
  BY <1>3 DEF UsageFits
<1>7. a \in Orgs \ unbounded /\ (limit = Unlimited => a # o)
  BY <1>3
<1>8. /\ \A q \in Procs: bill[q].pc = "usage" /\ bill[q].org = a => bill[q].value <= granted[a]
      /\ \A q \in Counting(a): bill[q].delta <= granted[a]
      /\ \A m \in Months: m > month => usage[a][m] = 0
      /\ \A m \in Months: usage[a][m] <= Cap(a, K)
      /\ CountingFits(a, K)
  BY <1>7 DEF UsageFits
<1>9. Cap(a, K) <= Cap(a, K)' /\ Cap(a, K) \in Nat /\ Cap(a, K)' \in Nat
  BY <1>4, <1>5, <1>7, CapGrows DEF IInv
<1>10. /\ granted[a] <= granted'[a] /\ granted[a] \in Nat /\ granted'[a] \in Nat
       /\ \A m \in Months: usage[a][m] \in Nat
       /\ month \in Months
  BY <1>4, <1>5 DEF IInv, TypeOK
<1>11. /\ Counting(a)' = Counting(a)
       /\ \A q \in Counting(a): bill'[q] = bill[q] /\ bill[q].delta \in Nat
  <2>1. bill[p].pc = "idle" /\ ~(r.pc = "increment" /\ r.org = a)
    BY <1>2, <1>3, <1>7
  <2>2. Counting(a)' = Counting(a)
    BY <1>6, <2>1 DEF Counting
  <2>3. \A q \in Counting(a): q # p /\ bill[q].delta \in Nat
    BY <2>1, LargestDeltaIsLargest DEF Counting, IInv, BillShape, Shape
  <2> QED
    BY <1>6, <2>2, <2>3 DEF Counting
<1>12. ASSUME NEW q \in Procs, bill'[q].pc = "usage", bill'[q].org = a
      PROVE  bill'[q].value <= granted'[a]
  <2>1. CASE q = p
    BY <1>1, <1>2, <1>5, <1>6, <1>7, <1>12, <2>1
  <2>2. CASE q # p
    <3>1. bill[q].value \in Nat /\ bill[q].value <= granted[a]
      BY <1>6, <1>8, <1>12, <2>2 DEF IInv, BillShape, Shape
    <3> QED
      BY <1>6, <1>10, <2>2, <3>1
  <2> QED
    BY <2>1, <2>2
<1>13. \A q \in Counting(a)': bill'[q].delta <= granted'[a]
  BY <1>8, <1>10, <1>11
<1>14. \A m \in Months: usage[a][m] <= Cap(a, K)'
  BY <1>8, <1>9, <1>10
<1>15. CountingFits(a, K)'
  <2> SUFFICES ASSUME Counting(a) # {}
               PROVE  \E q \in Counting(a):
                        usage[a][month] + bill[q].delta
                          + LargestDelta * (Cardinality(Counting(a)) - 1) <= Cap(a, K)'
    BY <1>3, <1>11 DEF CountingFits
  <2>1. PICK q \in Counting(a):
          usage[a][month] + bill[q].delta
            + LargestDelta * (Cardinality(Counting(a)) - 1) <= Cap(a, K)
    BY <1>8 DEF CountingFits
  <2>2. LargestDelta * (Cardinality(Counting(a)) - 1) \in Int
    BY CountingIsFinite, LargestDeltaIsLargest
  <2> QED
    BY <1>9, <1>10, <1>11, <2>1, <2>2
<1> QED
  BY <1>8, <1>12, <1>13, <1>14, <1>15

\* What was read fits, and every other increment under way is one request's.
LEMMA ReadUsageFits ==
    ASSUME IInv, NEW K \in Nat \ {0}, UsageFits(K), CountAtMost(K),
           NEW p \in Procs, NEW o \in Orgs, NEW n \in Nat, NEW d \in Deltas,
           bill[p].pc = "usage", bill[p].org = o, bill[p].value = n, bill[p].delta = d,
           Fits(usage[o][month], d, n),
           bill' = [bill EXCEPT ![p] = [bill[p] EXCEPT !.pc = "increment", !.value = None]],
           UNCHANGED <<usage, month, granted, unbounded>>
    PROVE  UsageFits(K)'
<1> DEFINE r == [bill[p] EXCEPT !.pc = "increment", !.value = None]
<1>1. bill[p].pc = "usage" /\ bill[p].org = o /\ bill[p].value = n /\ bill[p].delta = d
  OBVIOUS
<1>2. UNCHANGED <<usage, month, granted, unbounded>>
  OBVIOUS
<1>3. Fits(usage[o][month], d, n)
  OBVIOUS
<1>4. r.pc = "increment" /\ r.org = o /\ r.delta = d
  BY <1>1 DEF IInv, BillShape, Shape, BillRequest
<1>5. bill'[p] = r /\ \A q \in Procs: q # p => bill'[q] = bill[q]
  BY DEF IInv, TypeOK
<1> HIDE DEF r
<1> SUFFICES ASSUME NEW a \in Orgs \ unbounded
             PROVE  /\ \A q \in Procs: bill'[q].pc = "usage" /\ bill'[q].org = a
                                           => bill'[q].value <= granted[a]
                    /\ \A q \in Counting(a)': bill'[q].delta <= granted[a]
                    /\ \A m \in Months: m > month => usage[a][m] = 0
                    /\ \A m \in Months: usage[a][m] <= Cap(a, K)
                    /\ CountingFits(a, K)'
  BY <1>2 DEF UsageFits, Cap
<1>6. /\ \A q \in Procs: bill[q].pc = "usage" /\ bill[q].org = a => bill[q].value <= granted[a]
      /\ \A q \in Counting(a): bill[q].delta <= granted[a]
      /\ \A m \in Months: m > month => usage[a][m] = 0
      /\ \A m \in Months: usage[a][m] <= Cap(a, K)
      /\ CountingFits(a, K)
  BY DEF UsageFits
<1>7. \A q \in Procs: bill'[q].pc = "usage" /\ bill'[q].org = a => bill'[q].value <= granted[a]
  BY <1>4, <1>5, <1>6
<1>8. Cap(a, K)' = Cap(a, K)
  BY <1>2 DEF Cap
<1>9. CASE a # o
  <2>1. Counting(a)' = Counting(a) /\ \A q \in Counting(a): bill'[q] = bill[q]
    BY <1>1, <1>4, <1>5, <1>9 DEF Counting
  <2>2. CountingFits(a, K)'
    BY <1>2, <1>6, <1>8, <2>1 DEF CountingFits
  <2> QED
    BY <1>6, <1>7, <2>1, <2>2
<1>10. CASE a = o
  <2> DEFINE k == Cardinality(Counting(a))
             others == K - 1
  <2>1. /\ Counting(a)' = Counting(a) \cup {p} /\ p \notin Counting(a)
        /\ \A q \in Counting(a): bill'[q] = bill[q]
    BY <1>1, <1>4, <1>5, <1>10 DEF Counting
  <2>2. Cardinality(Counting(a)') = k + 1 /\ k \in Nat
    BY <2>1, CountingIsFinite, FS_AddElement
  <2>3. k + 1 <= K /\ others \in Nat
    <3>1. Counting(a) \cup {p} \in SUBSET Counts(a)
      BY <1>1, <1>10 DEF Counting, Counts
    <3>2. Cardinality(Counting(a) \cup {p}) <= Cardinality(Counts(a))
      BY <3>1, CountingIsFinite, FS_Subset
    <3>3. Cardinality(Counts(a)) \in Nat /\ Cardinality(Counts(a)) <= K
      BY CountingIsFinite DEF CountAtMost
    <3> QED
      BY <2>1, <2>2, <3>2, <3>3
  <2>4. k <= others /\ others \in Int /\ k \in Int
    BY <2>2, <2>3
  <2>5. LargestDelta * k <= LargestDelta * others /\ LargestDelta * k \in Int
    BY <2>4, LargestDeltaIsLargest, Monotonic
  <2>6. LargestDelta * others \in Int
    BY <2>3, LargestDeltaIsLargest
  <2>7. usage[a][month] + d <= n /\ n <= granted[a]
    BY <1>1, <1>3, <1>6, <1>10 DEF Fits
  <2>8. usage[a][month] \in Nat /\ granted[a] \in Nat /\ d \in Nat
    BY LargestDeltaIsLargest DEF IInv, TypeOK
  <2>9. usage[a][month] + d + LargestDelta * k <= Cap(a, K)
    BY <2>5, <2>6, <2>7, <2>8 DEF Cap
  <2>10. (k + 1) - 1 = k
    BY <2>2
  <2>11. CountingFits(a, K)'
    <3>1. p \in Counting(a)' /\ bill'[p].delta = d
      BY <1>4, <1>5, <2>1
    <3> QED
      BY <1>2, <1>8, <2>2, <2>9, <2>10, <3>1 DEF CountingFits
  <2>12. \A q \in Counting(a)': bill'[q].delta <= granted[a]
    <3>1. d <= granted[a]
      BY <2>7, <2>8
    <3> QED
      BY <1>4, <1>5, <1>6, <2>1, <3>1
  <2> QED
    BY <1>6, <1>7, <2>11, <2>12
<1> QED
  BY <1>9, <1>10

LEMMA IncrementFits ==
    ASSUME IInv, NEW K \in Nat \ {0}, UsageFits(K), NEW p \in Procs, Increment(p)
    PROVE  UsageFits(K)'
<1>1. PICK o \in Orgs, d \in Deltas:
        bill[p].pc = "increment" /\ bill[p].org = o /\ bill[p].delta = d
  BY DEF Increment, IInv, BillShape, Shape
<1> DEFINE u == usage[o][month] + d
<1>2. /\ UNCHANGED <<month, granted, unbounded>>
      /\ bill' = [bill EXCEPT ![p] = NoRequest]
      /\ usage' = [usage EXCEPT ![o][month] = @ + d]
  BY <1>1 DEF Increment, Finish, Move
<1>3. usage \in [Orgs -> [Months -> Nat]] /\ month \in Months /\ d \in Nat
  BY LargestDeltaIsLargest DEF IInv, TypeOK
<1>4. /\ u \in Nat /\ usage'[o][month] = u
      /\ \A m \in Months: m # month => usage'[o][m] = usage[o][m]
      /\ \A a \in Orgs: a # o => usage'[a] = usage[a]
  BY <1>2, <1>3
<1>5. bill'[p] = NoRequest /\ \A q \in Procs: q # p => bill'[q] = bill[q]
  BY <1>2 DEF IInv, TypeOK
<1> SUFFICES ASSUME NEW a \in Orgs \ unbounded
             PROVE  /\ \A q \in Procs: bill'[q].pc = "usage" /\ bill'[q].org = a
                                           => bill'[q].value <= granted[a]
                    /\ \A q \in Counting(a)': bill'[q].delta <= granted[a]
                    /\ \A m \in Months: m > month => usage'[a][m] = 0
                    /\ \A m \in Months: usage'[a][m] <= Cap(a, K)
                    /\ CountingFits(a, K)'
  BY <1>2 DEF UsageFits, Cap
<1>6. /\ \A q \in Procs: bill[q].pc = "usage" /\ bill[q].org = a => bill[q].value <= granted[a]
      /\ \A q \in Counting(a): bill[q].delta <= granted[a]
      /\ \A m \in Months: m > month => usage[a][m] = 0
      /\ \A m \in Months: usage[a][m] <= Cap(a, K)
      /\ CountingFits(a, K)
  BY DEF UsageFits
<1>7. /\ Counting(a)' = Counting(a) \ {p}
      /\ \A q \in Counting(a) \ {p}: bill'[q] = bill[q]
  BY <1>5, NoRequestShape DEF Counting
<1>8. /\ \A q \in Procs: bill'[q].pc = "usage" /\ bill'[q].org = a => bill'[q].value <= granted[a]
      /\ \A q \in Counting(a)': bill'[q].delta <= granted[a]
  BY <1>5, <1>6, <1>7, NoRequestShape
<1>9. Cap(a, K)' = Cap(a, K)
  BY <1>2 DEF Cap
<1>10. CASE a # o
  <2>1. usage'[a] = usage[a] /\ Counting(a)' = Counting(a)
    BY <1>1, <1>4, <1>7, <1>10 DEF Counting
  <2>2. CountingFits(a, K)'
    BY <1>2, <1>6, <1>7, <1>9, <2>1 DEF CountingFits
  <2> QED
    BY <1>6, <1>8, <2>1, <2>2
<1>11. CASE a = o
  <2>1. p \in Counting(a) /\ u <= usage[a][month] + bill[p].delta
    BY <1>1, <1>3, <1>11 DEF Counting
  <2>2. /\ u <= Cap(a, K)
        /\ Counting(a) \ {p} # {} =>
             \E q \in Counting(a) \ {p}:
                 u + bill[q].delta + LargestDelta * (Cardinality(Counting(a) \ {p}) - 1)
                     <= Cap(a, K)
    BY <1>4, <2>1, CountingShrinks
  <2>3. CountingFits(a, K)'
    <3> SUFFICES ASSUME Counting(a) \ {p} # {}
                 PROVE  \E q \in Counting(a) \ {p}:
                          usage'[a][month] + bill'[q].delta
                            + LargestDelta * (Cardinality(Counting(a) \ {p}) - 1) <= Cap(a, K)
      BY <1>2, <1>7, <1>9 DEF CountingFits
    <3> QED
      BY <1>4, <1>7, <1>11, <2>2
  <2>4. /\ \A m \in Months: m > month => usage'[a][m] = 0
        /\ \A m \in Months: usage'[a][m] <= Cap(a, K)
    <3>1. \A m \in Months: m > month => m # month
      BY DEF Months
    <3> QED
      BY <1>4, <1>6, <1>11, <2>2, <3>1
  <2> QED
    BY <1>8, <2>3, <2>4
<1> QED
  BY <1>10, <1>11

\* What is under way will be counted from nothing in the new month.
LEMMA TickFits ==
    ASSUME IInv, NEW K \in Nat \ {0}, UsageFits(K), CountAtMost(K), Tick
    PROVE  UsageFits(K)'
<1>1. /\ month' = month + 1 /\ month' \in Months /\ month \in Months
      /\ UNCHANGED <<usage, bill, granted, unbounded>>
  BY BillingAssumption DEF Tick, billTables, Months, IInv, TypeOK
<1>2. \A o: Counting(o)' = Counting(o)
  BY <1>1 DEF Counting
<1> SUFFICES ASSUME NEW o \in Orgs \ unbounded
             PROVE  /\ \A q \in Procs: bill[q].pc = "usage" /\ bill[q].org = o
                                           => bill[q].value <= granted[o]
                    /\ \A q \in Counting(o): bill[q].delta <= granted[o]
                    /\ \A m \in Months: m > month' => usage[o][m] = 0
                    /\ \A m \in Months: usage[o][m] <= Cap(o, K)
                    /\ CountingFits(o, K)'
  BY <1>1, <1>2 DEF UsageFits, Cap
<1>3. /\ \A q \in Procs: bill[q].pc = "usage" /\ bill[q].org = o => bill[q].value <= granted[o]
      /\ \A q \in Counting(o): bill[q].delta <= granted[o]
      /\ \A m \in Months: m > month => usage[o][m] = 0
      /\ \A m \in Months: usage[o][m] <= Cap(o, K)
  BY DEF UsageFits
<1>4. /\ \A m \in Months: m > month' => m > month
      /\ month' > month
  BY <1>1 DEF Months
<1>5. Cap(o, K)' = Cap(o, K)
  BY <1>1 DEF Cap
<1>6. CountingFits(o, K)'
  <2> SUFFICES ASSUME Counting(o) # {}
               PROVE  \E q \in Counting(o):
                        usage[o][month'] + bill[q].delta
                          + LargestDelta * (Cardinality(Counting(o)) - 1) <= Cap(o, K)
    BY <1>1, <1>2, <1>5 DEF CountingFits
  <2> PICK q \in Counting(o): TRUE
    OBVIOUS
  <2> DEFINE k == Cardinality(Counting(o))
             others == K - 1
  <2>1. k - 1 <= others /\ k - 1 \in Int /\ others \in Int
    BY CountingIsFinite DEF CountAtMost
  <2>2. LargestDelta * (k - 1) <= LargestDelta * others /\ LargestDelta * (k - 1) \in Int
    BY <2>1, LargestDeltaIsLargest, Monotonic
  <2>3. LargestDelta * others \in Int
    BY <2>1, LargestDeltaIsLargest
  <2>4. bill[q].delta \in Nat /\ bill[q].delta <= granted[o] /\ granted[o] \in Nat
    BY <1>3, LargestDeltaIsLargest DEF IInv, TypeOK, BillShape, Shape, Counting
  <2>5. usage[o][month'] = 0
    BY <1>1, <1>3, <1>4
  <2>6. usage[o][month'] + bill[q].delta + LargestDelta * (k - 1) <= Cap(o, K)
    BY <2>2, <2>3, <2>4, <2>5 DEF Cap
  <2> QED
    BY <2>6
<1> QED
  BY <1>3, <1>4, <1>6

\* Whatever is not about usage moves a request that does not count.
LEMMA StepFits ==
    ASSUME IInv, IInv', NEW K \in Nat \ {0}, UsageFits(K), CountAtMost(K),
           NEW p \in Procs, BillStep(p)
    PROVE  UsageFits(K)'
<1> DEFINE Elsewhere(r) ==
      /\ bill' = [bill EXCEPT ![p] = r] /\ r.pc \notin {"usage", "increment"}
      /\ UNCHANGED <<usage, month, granted, unbounded>>
<1>1. ASSUME NEW r, Elsewhere(r) PROVE UsageFits(K)'
  BY <1>1, UsageFrame
<1> HIDE DEF Elsewhere
<1>2. ASSUME NEW o \in Orgs, NEW plan \in Plans, NEW status \in {"active", "trialing"},
             BeginCreate(p, o, plan, status)
      PROVE  UsageFits(K)'
  <2>1. Elsewhere([NoRequest EXCEPT !.pc = "create", !.org = o,
                   !.sub = [plan |-> plan, status |-> status, canceledAt |-> FALSE],
                   !.event = [from |-> None, to |-> status]])
    BY <1>2 DEF BeginCreate, Move, billTables, Elsewhere, NoRequest
  <2> QED
    BY <1>1, <2>1
<1>3. ASSUME NEW o \in Orgs, NEW row, BeginRewrite(p, o, row) PROVE UsageFits(K)'
  <2>1. Elsewhere([NoRequest EXCEPT !.pc = "update", !.org = o, !.sub = row,
                   !.event = [from |-> subs[o].status, to |-> row.status]])
    BY <1>3 DEF BeginRewrite, Move, billTables, Elsewhere, NoRequest
  <2> QED
    BY <1>1, <2>1
<1>4. ASSUME InsertSubscription(p) PROVE UsageFits(K)'
  <2>1. \/ Elsewhere([bill[p] EXCEPT !.pc = "history", !.sub = None])
        \/ Elsewhere(NoRequest)
    BY <1>4, NoRequestShape DEF InsertSubscription, Finish, Move, Elsewhere, IInv, TypeOK,
                                BillRequest
  <2> QED
    BY <1>1, <2>1
<1>5. ASSUME UpdateRow(p) PROVE UsageFits(K)'
  <2>1. Elsewhere([bill[p] EXCEPT !.pc = "history", !.sub = None])
    BY <1>5 DEF UpdateRow, AfterUpdate, Move, Elsewhere, IInv, TypeOK, BillRequest
  <2> QED
    BY <1>1, <2>1
<1>6. ASSUME WriteHistory(p) \/ CommitOverride(p) \/ BillFail(p) PROVE UsageFits(K)'
  <2>1. Elsewhere(NoRequest)
    BY <1>6, NoRequestShape DEF WriteHistory, CommitOverride, BillFail, Finish, Move,
                                billTables, Elsewhere
  <2> QED
    BY <1>1, <2>1
<1>7. ASSUME NEW o \in Orgs, NEW v \in Values \cup {None}, BeginOverride(p, o, v)
      PROVE  UsageFits(K)'
  <2>1. Elsewhere([NoRequest EXCEPT !.pc = "overrideDelete", !.org = o, !.value = v,
                   !.rows = overrides[o], !.id = begun])
    BY <1>7 DEF BeginOverride, Move, billTables, Elsewhere, NoRequest
  <2> QED
    BY <1>1, <2>1
<1>8. ASSUME DeleteRows(p) PROVE UsageFits(K)'
  <2> DEFINE found == bill[p].rows \cap overrides[bill[p].org]
  <2>1. \/ Elsewhere([bill[p] EXCEPT !.pc = "overrideCommit", !.rows = found])
        \/ Elsewhere(NoRequest)
    BY <1>8, NoRequestShape DEF DeleteRows, Finish, Move, Elsewhere, IInv, TypeOK, BillRequest
  <2> QED
    BY <1>1, <2>1
<1>9. ASSUME ReadUsage(p) PROVE UsageFits(K)'
  <2>1. PICK o \in Orgs, n \in Nat, d \in Deltas:
          /\ bill[p].pc = "usage" /\ bill[p].org = o
          /\ bill[p].value = n /\ bill[p].delta = d
    BY <1>9 DEF ReadUsage, IInv, BillShape, Shape
  <2>2. CASE Fits(usage[o][month], d, n)
    BY <1>9, <2>1, <2>2, ReadUsageFits DEF ReadUsage, Move, billTables
  <2>3. CASE ~Fits(usage[o][month], d, n)
    <3>1. Elsewhere(NoRequest)
      BY <1>9, <2>1, <2>3, NoRequestShape DEF ReadUsage, Finish, Move, billTables, Elsewhere
    <3> QED
      BY <1>1, <3>1
  <2> QED
    BY <2>2, <2>3
<1> QED
  BY <1>2, <1>3, <1>4, <1>5, <1>6, <1>7, <1>8, <1>9, IncrementFits, BeginCountFits
  DEF BillStep

LEMMA NextFits ==
    ASSUME IInv, IInv', NEW K \in Nat \ {0}, UsageFits(K), CountAtMost(K), [Next]_vars
    PROVE  UsageFits(K)'
<1>1. ASSUME UNCHANGED <<usage, month, bill, granted, unbounded>> PROVE UsageFits(K)'
  <2>1. \A o: Cap(o, K)' = Cap(o, K) /\ CountingFits(o, K)' = CountingFits(o, K)
    BY <1>1 DEF Cap, CountingFits, Counting
  <2>2. \A o: Counting(o)' = Counting(o)
    BY <1>1 DEF Counting
  <2> QED
    BY <1>1, <2>1, <2>2 DEF UsageFits
<1>2. ASSUME NEW p \in Procs, Register(p) PROVE UsageFits(K)'
  BY <1>1, <1>2 DEF Register, billVars, billTables
<1>3. UNCHANGED vars => UsageFits(K)'
  BY <1>1 DEF vars, billVars, billTables
<1> QED
  BY <1>2, <1>3, TickFits, StepFits DEF Next, Served

LEMMA FitsBounds ==
    ASSUME NEW K \in Nat \ {0}, UsageFits(K), NEW o \in Orgs \ unbounded, NEW m \in Months
    PROVE  usage[o][m] <= granted[o] + LargestDelta * (K - 1)
  BY DEF UsageFits, Cap

(***************************************************************************)
(* Checking and counting are separate statements, but what they can add to *)
(* a counter beyond the largest limit depends on the requests of that      *)
(* organization alone: with at most K of them between their evaluation and *)
(* their increment at a time it is K - 1 of the largest amounts, however   *)
(* many organizations are served besides and whenever the month ends.      *)
(***************************************************************************)
THEOREM OvershootBoundedPerOrganization ==
    ASSUME NEW K \in Nat \ {0}
    PROVE  Spec /\ []CountAtMost(K)
             => [](\A o \in Orgs \ unbounded, m \in Months:
                       usage[o][m] <= granted[o] + LargestDelta * (K - 1))
<1> DEFINE Fit == UsageFits(K)
           Few == CountAtMost(K)
           Bound == \A o \in Orgs \ unbounded, m \in Months:
                        usage[o][m] <= granted[o] + LargestDelta * (K - 1)
<1>1. Init => Fit
  BY InitUsage
<1>2. IInv /\ IInv' /\ Fit /\ Few /\ [Next]_vars => Fit'
  BY NextFits
<1>3. Fit => Bound
  BY FitsBounds
<1> HIDE DEF Fit, Few, Bound
<1>4. Spec /\ []Few => []Bound
  BY <1>1, <1>2, <1>3, InductiveInvariant, PTL DEF Spec
<1> QED
  BY <1>4 DEF Few, Bound

(***************************************************************************)
(* Without a lock between the check and the increment the counters still   *)
(* pass the limit by one increment of every other process at most.         *)
(***************************************************************************)
THEOREM OvershootIsBounded == Spec => []UsageOvershootIsBounded
<1> DEFINE K == Cardinality(Procs)
           Fit == UsageFits(K)
<1>1. K \in Nat \ {0}
  BY ProcsAreCounted
<1>2. CountAtMost(K)
  BY CountingIsFinite DEF CountAtMost
<1>3. Init => Fit
  BY <1>1, InitUsage
<1>4. IInv /\ IInv' /\ Fit /\ [Next]_vars => Fit'
  BY <1>1, <1>2, NextFits
<1>5. Fit => UsageOvershootIsBounded
  BY <1>1, FitsBounds DEF UsageOvershootIsBounded
<1> HIDE DEF Fit
<1> QED
  BY <1>3, <1>4, <1>5, InductiveInvariant, PTL DEF Spec

\* No counter passes the largest limit its organization was given.
UsageKeepsLimit == \A o \in Orgs \ unbounded, m \in Months: usage[o][m] <= granted[o]

(***************************************************************************)
(* An organization whose counting requests never overlap stays within its  *)
(* limit: the missing lock is the only thing CheckAndIncrement lacks.      *)
(***************************************************************************)
THEOREM OneAtATimeKeepsLimit == Spec /\ []CountAtMost(1) => []UsageKeepsLimit
<1> DEFINE Fit == UsageFits(1)
           Few == CountAtMost(1)
<1>1. Init => Fit
  BY InitUsage
<1>2. IInv /\ IInv' /\ Fit /\ Few /\ [Next]_vars => Fit'
  BY NextFits
<1>3. IInv /\ Fit => UsageKeepsLimit
  <2> SUFFICES ASSUME IInv, Fit, NEW o \in Orgs \ unbounded, NEW m \in Months
               PROVE  usage[o][m] <= granted[o]
    BY DEF UsageKeepsLimit
  <2>1. usage[o][m] <= granted[o] + LargestDelta * (1 - 1)
    BY FitsBounds
  <2>2. LargestDelta * (1 - 1) = 0 /\ granted[o] \in Nat
    BY LargestDeltaIsLargest DEF IInv, TypeOK
  <2> QED
    BY <2>1, <2>2
<1> HIDE DEF Fit, Few
<1>4. Spec /\ []Few => []UsageKeepsLimit
  BY <1>1, <1>2, <1>3, InductiveInvariant, PTL DEF Spec
<1> QED
  BY <1>4 DEF Few

-------------------------------------------------------------------------------
(* Overrides.  What the comment at entitlement_repository.go:79 promises    *)
(* is kept when nobody sets the override of an organization twice at once.  *)

\* The transaction of SetOverride, between its first snapshot and its commit.
Setting(r) ==
    \/ r.pc = "overrideDelete" /\ r.value # None
    \/ r.pc = "overrideCommit"

SetsRunAlone ==
    \A p, q \in Procs:
        p # q /\ Setting(bill[p]) /\ Setting(bill[q]) => bill[p].org # bill[q].org

\* Whoever is about to insert an override has seen every other there is, and
\* will have removed them: a DeleteOverride only takes some away before.
SettersSeeAll ==
    /\ \A o \in Orgs: \A v, w \in overrides[o]: v = w
    /\ \A p \in Procs: Setting(bill[p]) => overrides[bill[p].org] \subseteq bill[p].rows

\* Overrides may disappear under a request that is set, but not be added.
LEMMA SettersFrame ==
    ASSUME IInv, SettersSeeAll, NEW p \in Procs, NEW r, bill' = [bill EXCEPT ![p] = r],
           Setting(r) => r.org \in Orgs /\ overrides[r.org] \subseteq r.rows,
           overrides' \in [Orgs -> SUBSET Override],
           \A o \in Orgs: overrides'[o] \subseteq overrides[o]
    PROVE  SettersSeeAll'
<1>1. bill'[p] = r /\ \A q \in Procs: q # p => bill'[q] = bill[q]
  BY DEF IInv, TypeOK
<1>2. \A q \in Procs: Setting(bill[q]) => bill[q].org \in Orgs
  BY DEF Setting, IInv, BillShape, Shape
<1>3. \A o \in Orgs: \A v, w \in overrides'[o]: v = w
  BY DEF SettersSeeAll
<1>4. ASSUME NEW q \in Procs, Setting(bill'[q])
      PROVE  overrides'[bill'[q].org] \subseteq bill'[q].rows
  <2>1. CASE q = p
    <3>1. r.org \in Orgs /\ overrides[r.org] \subseteq r.rows
      BY <1>1, <1>4, <2>1
    <3> QED
      BY <1>1, <2>1, <3>1
  <2>2. CASE q # p
    <3>1. bill'[q] = bill[q] /\ bill[q].org \in Orgs
          /\ overrides[bill[q].org] \subseteq bill[q].rows
      BY <1>1, <1>2, <1>4, <2>2 DEF SettersSeeAll
    <3> QED
      BY <3>1
  <2> QED
    BY <2>1, <2>2
<1> QED
  BY <1>3, <1>4 DEF SettersSeeAll, Setting

LEMMA DeleteRowsSeesAll ==
    ASSUME IInv, IInv', SettersSeeAll, NEW p \in Procs, DeleteRows(p)
    PROVE  SettersSeeAll'
<1> DEFINE o == bill[p].org
           found == bill[p].rows \cap overrides[o]
<1>1. bill[p].pc = "overrideDelete" /\ o \in Orgs /\ bill[p] \in BillRequest
  BY DEF DeleteRows, IInv, BillShape, Shape
<1>2. overrides' \in [Orgs -> SUBSET Override] /\ overrides \in [Orgs -> SUBSET Override]
  BY DEF IInv, TypeOK
<1>3. CASE bill[p].value = None
  <2>1. /\ bill' = [bill EXCEPT ![p] = NoRequest] /\ ~Setting(NoRequest)
        /\ overrides' = [overrides EXCEPT ![o] = @ \ found]
    BY <1>3, NoRequestShape DEF DeleteRows, Finish, Move, Setting
  <2>2. \A a \in Orgs: overrides'[a] \subseteq overrides[a]
    BY <1>1, <1>2, <2>1
  <2> QED
    BY <1>2, <2>1, <2>2, SettersFrame
<1>4. CASE bill[p].value # None
  <2> DEFINE r == [bill[p] EXCEPT !.pc = "overrideCommit", !.rows = found]
  <2>1. bill' = [bill EXCEPT ![p] = r] /\ overrides' = overrides
    BY <1>4 DEF DeleteRows, Move
  <2>2. r.org = o /\ r.rows = found
    BY <1>1 DEF BillRequest
  <2>3. overrides[o] \subseteq found
    BY <1>1, <1>4 DEF SettersSeeAll, Setting
  <2> HIDE DEF r
  <2> QED
    BY <1>1, <1>2, <2>1, <2>2, <2>3, SettersFrame
<1> QED
  BY <1>3, <1>4

\* Alone, the transaction replaces whatever was there by the row it inserts.
LEMMA CommitOverrideSeesAll ==
    ASSUME IInv, SettersSeeAll, SetsRunAlone, NEW p \in Procs, CommitOverride(p)
    PROVE  SettersSeeAll'
<1> DEFINE o == bill[p].org
           new == [id |-> bill[p].id, by |-> p, value |-> bill[p].value]
<1>1. bill[p].pc = "overrideCommit" /\ o \in Orgs /\ overrides[o] \subseteq bill[p].rows
  BY DEF CommitOverride, IInv, BillShape, Shape, SettersSeeAll, Setting
<1>2. /\ bill'[p] = NoRequest /\ \A q \in Procs: q # p => bill'[q] = bill[q]
      /\ overrides' = [overrides EXCEPT ![o] = (overrides[o] \ bill[p].rows) \cup {new}]
  BY DEF CommitOverride, AfterSet, Finish, Move, IInv, TypeOK
<1>3. overrides'[o] = {new} /\ \A a \in Orgs: a # o => overrides'[a] = overrides[a]
  BY <1>1, <1>2 DEF IInv, TypeOK
<1>4. \A a \in Orgs: \A v, w \in overrides'[a]: v = w
  BY <1>3 DEF SettersSeeAll
<1>5. ASSUME NEW q \in Procs, Setting(bill'[q])
      PROVE  overrides'[bill'[q].org] \subseteq bill'[q].rows
  <2>1. q # p /\ bill'[q] = bill[q]
    BY <1>2, <1>5, NoRequestShape DEF Setting
  <2>2. Setting(bill[p])
    BY <1>1 DEF Setting
  <2>3. bill[q].org # o /\ bill[q].org \in Orgs
    BY <1>5, <2>1, <2>2 DEF SetsRunAlone, Setting, IInv, BillShape, Shape
  <2>4. overrides[bill[q].org] \subseteq bill[q].rows
    BY <1>5, <2>1 DEF SettersSeeAll
  <2> QED
    BY <1>3, <2>1, <2>3, <2>4
<1> QED
  BY <1>4, <1>5 DEF SettersSeeAll, Setting

LEMMA StepSeesAll ==
    ASSUME IInv, IInv', SettersSeeAll, SetsRunAlone, NEW p \in Procs, BillStep(p)
    PROVE  SettersSeeAll'
<1>1. overrides' \in [Orgs -> SUBSET Override] /\ bill[p] \in BillRequest
  BY DEF IInv, TypeOK
<1>2. ASSUME NEW r, bill' = [bill EXCEPT ![p] = r], ~Setting(r), UNCHANGED overrides
      PROVE  SettersSeeAll'
  BY <1>1, <1>2, SettersFrame
<1>3. ASSUME NEW r, r.pc \notin {"overrideDelete", "overrideCommit"} PROVE ~Setting(r)
  BY <1>3 DEF Setting
<1>4. ASSUME NEW o \in Orgs, NEW plan \in Plans, NEW status \in {"active", "trialing"},
             BeginCreate(p, o, plan, status)
      PROVE  SettersSeeAll'
  <2> DEFINE r == [NoRequest EXCEPT !.pc = "create", !.org = o,
                      !.sub = [plan |-> plan, status |-> status, canceledAt |-> FALSE],
                      !.event = [from |-> None, to |-> status]]
  <2>1. bill' = [bill EXCEPT ![p] = r] /\ r.pc = "create" /\ UNCHANGED overrides
    BY <1>4 DEF BeginCreate, Move, billTables, NoRequest
  <2> HIDE DEF r
  <2> QED
    BY <1>2, <1>3, <2>1
<1>5. ASSUME NEW o \in Orgs, NEW row, BeginRewrite(p, o, row) PROVE SettersSeeAll'
  <2> DEFINE r == [NoRequest EXCEPT !.pc = "update", !.org = o, !.sub = row,
                      !.event = [from |-> subs[o].status, to |-> row.status]]
  <2>1. bill' = [bill EXCEPT ![p] = r] /\ r.pc = "update" /\ UNCHANGED overrides
    BY <1>5 DEF BeginRewrite, Move, billTables, NoRequest
  <2> HIDE DEF r
  <2> QED
    BY <1>2, <1>3, <2>1
<1>6. ASSUME InsertSubscription(p) \/ UpdateRow(p) PROVE SettersSeeAll'
  <2> DEFINE r == [bill[p] EXCEPT !.pc = "history", !.sub = None]
  <2>1. r.pc = "history"
    BY <1>1 DEF BillRequest
  <2>2. /\ bill' = [bill EXCEPT ![p] = r] \/ bill' = [bill EXCEPT ![p] = NoRequest]
        /\ UNCHANGED overrides
    BY <1>6 DEF InsertSubscription, UpdateRow, AfterUpdate, Finish, Move
  <2> HIDE DEF r
  <2> QED
    BY <1>2, <1>3, <2>1, <2>2, NoRequestShape
<1>7. ASSUME NEW o \in Orgs, NEW value \in Values \cup {None}, BeginOverride(p, o, value)
      PROVE  SettersSeeAll'
  <2> DEFINE r == [NoRequest EXCEPT !.pc = "overrideDelete", !.org = o, !.value = value,
                      !.rows = overrides[o], !.id = begun]
  <2>1. /\ bill' = [bill EXCEPT ![p] = r] /\ r.org = o /\ r.rows = overrides[o]
        /\ UNCHANGED overrides
    BY <1>7 DEF BeginOverride, Move, billTables, NoRequest
  <2> HIDE DEF r
  <2> QED
    BY <1>1, <2>1, SettersFrame
<1>8. ASSUME WriteHistory(p) \/ Increment(p) \/ BillFail(p) PROVE SettersSeeAll'
  BY <1>2, <1>3, <1>8, NoRequestShape
  DEF WriteHistory, Increment, BillFail, Finish, Move, billTables
<1>9. ASSUME NEW o \in Orgs, NEW delta \in Deltas, NEW limit \in LimitsOf(o),
             BeginCount(p, o, delta, limit)
      PROVE  SettersSeeAll'
  <2> DEFINE r == [NoRequest EXCEPT !.pc = IF limit = Unlimited THEN "increment" ELSE "usage",
                      !.org = o, !.delta = delta, !.value = limit]
  <2>1. /\ bill' = [bill EXCEPT ![p] = r] /\ r.pc \in {"usage", "increment"}
        /\ UNCHANGED overrides
    BY <1>9 DEF BeginCount, Move, billTables, NoRequest
  <2> HIDE DEF r
  <2> QED
    BY <1>2, <1>3, <2>1
<1>10. ASSUME ReadUsage(p) PROVE SettersSeeAll'
  <2> DEFINE r == [bill[p] EXCEPT !.pc = "increment", !.value = None]
  <2>1. r.pc = "increment"
    BY <1>1 DEF BillRequest
  <2>2. /\ bill' = [bill EXCEPT ![p] = r] \/ bill' = [bill EXCEPT ![p] = NoRequest]
        /\ UNCHANGED overrides
    BY <1>10 DEF ReadUsage, Finish, Move, billTables
  <2> HIDE DEF r
  <2> QED
    BY <1>2, <1>3, <2>1, <2>2, NoRequestShape
<1> QED
  BY <1>4, <1>5, <1>6, <1>7, <1>8, <1>9, <1>10, DeleteRowsSeesAll, CommitOverrideSeesAll
  DEF BillStep

(***************************************************************************)
(* "This avoids duplicate overrides for the same key": it does as long as  *)
(* two SetOverride of one organization do not overlap.  DeleteOverride may *)
(* overlap either, and any of them may fail.                               *)
(***************************************************************************)
THEOREM SetsAloneKeepOverridesUnique == Spec /\ []SetsRunAlone => []OverridesAreUnique
<1>1. Init => SettersSeeAll
  BY DEF Init, SettersSeeAll, Setting, NoRequest
<1>2. IInv /\ IInv' /\ SettersSeeAll /\ SetsRunAlone /\ [Next]_vars => SettersSeeAll'
  <2> SUFFICES ASSUME IInv, IInv', SettersSeeAll, SetsRunAlone, [Next]_vars
               PROVE  SettersSeeAll'
    OBVIOUS
  <2>1. ASSUME UNCHANGED <<bill, overrides>> PROVE SettersSeeAll'
    BY <2>1 DEF SettersSeeAll, Setting
  <2>2. ASSUME NEW p \in Procs, Register(p) PROVE SettersSeeAll'
    BY <2>1, <2>2 DEF Register, billVars, billTables
  <2>3. Tick \/ UNCHANGED vars => SettersSeeAll'
    BY <2>1 DEF Tick, vars, billVars, billTables
  <2> QED
    BY <2>2, <2>3, StepSeesAll DEF Next, Served
<1>3. SettersSeeAll => OverridesAreUnique
  <2> SUFFICES ASSUME SettersSeeAll, NEW o \in Orgs PROVE Cardinality(overrides[o]) <= 1
    BY DEF OverridesAreUnique
  <2>1. Cardinality(overrides[o]) \in {0, 1}
    BY AtMostOne DEF SettersSeeAll
  <2> QED
    BY <2>1
<1> QED
  BY <1>1, <1>2, <1>3, InductiveInvariant, PTL DEF Spec

-------------------------------------------------------------------------------
(* The subscription history.  It is written after the subscription, from    *)
(* what the request has read before: between two requests that rewrite one  *)
(* subscription at once its events may come in either order.                *)

Rewriting(r) == r.pc \in {"update", "history"}

\* Requests that provision a subscription are free to overlap.
RewritesRunAlone ==
    \A p, q \in Procs:
        p # q /\ Rewriting(bill[p]) /\ Rewriting(bill[q]) => bill[p].org # bill[q].org

Now(o) == IF subs[o] = None THEN None ELSE subs[o].status

Last(o) == IF Len(history[o]) = 0 THEN None ELSE history[o][Len(history[o])].to

\* Every change of the subscription is in the history or on its way there.
Complete(o) == changes[o] = Len(history[o]) + Cardinality(InHistory(o))

\* Each event starts where the one before it has led.
Chain(o) ==
    \A i \in 1..Len(history[o]):
        history[o][i].from = IF i = 1 THEN None ELSE history[o][i - 1].to

\* The chain goes on with the event under way and ends at the subscription.
Chained(o) ==
    /\ Chain(o)
    /\ InHistory(o) = {} => Last(o) = Now(o)
    /\ \A p \in InHistory(o): bill[p].event.from = Last(o) /\ bill[p].event.to = Now(o)

Recorded ==
    /\ \A o \in Orgs: subs[o] = None => Len(history[o]) = 0 /\ InHistory(o) = {}
    /\ \A p \in Procs: bill[p].pc \in {"create", "update"} => bill[p].event.to = bill[p].sub.status
    /\ \A p \in Procs: bill[p].pc = "update" => bill[p].event.from = Now(bill[p].org)
    /\ \A o \in Orgs: Complete(o) => Chained(o)

\* A request that writes neither table: if it drops an event, the history is
\* complete no more.
LEMMA RecordedFrame ==
    ASSUME IInv, Recorded, NEW p \in Procs, NEW r, bill' = [bill EXCEPT ![p] = r],
           UNCHANGED <<subs, history, changes>>, r.pc # "history",
           r.pc \in {"create", "update"} => r.event.to = r.sub.status,
           r.pc = "update" => r.event.from = Now(r.org)
    PROVE  Recorded'
<1>1. bill'[p] = r /\ \A q \in Procs: q # p => bill'[q] = bill[q]
  BY DEF IInv, TypeOK
<1>2. \A o: InHistory(o)' = InHistory(o) \ {p}
  BY <1>1 DEF InHistory
<1>3. \A o \in Orgs: subs'[o] = None => Len(history'[o]) = 0 /\ InHistory(o)' = {}
  BY <1>2 DEF Recorded
<1>4. /\ \A q \in Procs: bill'[q].pc \in {"create", "update"}
            => bill'[q].event.to = bill'[q].sub.status
      /\ \A q \in Procs: bill'[q].pc = "update" => bill'[q].event.from = Now(bill[q].org)'
  <2> QED
    BY <1>1 DEF Recorded, Now
<1>5. ASSUME NEW o \in Orgs, Complete(o)' PROVE Chained(o)'
  <2>1. p \notin InHistory(o)
    <3> SUFFICES ASSUME p \in InHistory(o) PROVE FALSE
      OBVIOUS
    <3>1. IsFiniteSet(InHistory(o)) /\ Cardinality(InHistory(o)) \in Nat
      BY ProcsAreCounted
    <3>2. Cardinality(InHistory(o)') = Cardinality(InHistory(o)) - 1
      BY <1>2, <3>1, FS_RemoveElement
    <3>3. changes[o] = Len(history[o]) + Cardinality(InHistory(o)')
      BY <1>5 DEF Complete
    <3>4. Len(history[o]) + Cardinality(InHistory(o)) <= changes[o] /\ Len(history[o]) \in Nat
      BY DEF IInv, HistoryMissesOnlyFailures, TypeOK
    <3> QED
      BY <3>1, <3>2, <3>3, <3>4
  <2>2. InHistory(o)' = InHistory(o)
    BY <1>2, <2>1
  <2>3. Complete(o)
    BY <1>5, <2>2 DEF Complete
  <2>4. \A q \in InHistory(o): bill'[q] = bill[q]
    BY <1>1, <2>1 DEF InHistory
  <2> QED
    BY <2>2, <2>3, <2>4 DEF Recorded, Chained, Chain, Last, Now
<1> QED
  BY <1>3, <1>4, <1>5 DEF Recorded

\* The row is written first: what the history will say follows its last event.
LEMMA WritingKeepsChain ==
    ASSUME IInv, Recorded, RewritesRunAlone, NEW p \in Procs, NEW o \in Orgs,
           bill[p].pc \in {"create", "update"}, bill[p].org = o,
           bill[p].pc = "create" => subs[o] = None,
           bill' = [bill EXCEPT ![p] = [bill[p] EXCEPT !.pc = "history", !.sub = None]],
           subs' = [subs EXCEPT ![o] = bill[p].sub],
           changes' = [changes EXCEPT ![o] = @ + 1],
           UNCHANGED history
    PROVE  Recorded'
<1> DEFINE r == [bill[p] EXCEPT !.pc = "history", !.sub = None]
<1>1. bill'[p] = r /\ \A q \in Procs: q # p => bill'[q] = bill[q]
  BY DEF IInv, TypeOK
<1>2. r.pc = "history" /\ r.org = o /\ r.event = bill[p].event
  BY DEF IInv, BillShape, Shape, BillRequest
<1> HIDE DEF r
<1>3. bill[p].sub \in Subscription /\ bill[p].sub # None
  BY BillingAssumption DEF IInv, BillShape, Shape
<1>4. /\ subs'[o] = bill[p].sub /\ changes'[o] = changes[o] + 1
      /\ \A a \in Orgs: a # o => subs'[a] = subs[a] /\ changes'[a] = changes[a]
  BY DEF IInv, TypeOK
<1>5. /\ InHistory(o)' = InHistory(o) \cup {p} /\ p \notin InHistory(o)
      /\ \A a \in Orgs: a # o => InHistory(a)' = InHistory(a)
  BY <1>1, <1>2 DEF InHistory
<1>6. InHistory(o) = {}
  <2>1. CASE bill[p].pc = "create"
    BY <2>1 DEF Recorded
  <2>2. CASE bill[p].pc = "update"
    <3> SUFFICES ASSUME NEW q \in InHistory(o) PROVE FALSE
      OBVIOUS
    <3>1. q \in Procs /\ q # p /\ bill[q].pc = "history" /\ bill[q].org = o
      BY <2>2 DEF InHistory
    <3> QED
      BY <2>2, <3>1 DEF RewritesRunAlone, Rewriting
  <2> QED
    BY <2>1, <2>2
<1>7. ASSUME NEW q \in Procs, bill'[q].pc = "update"
      PROVE  q # p /\ bill'[q] = bill[q] /\ bill[q].org \in Orgs /\ bill[q].org # o
  <2>1. q # p /\ bill'[q] = bill[q]
    BY <1>1, <1>2, <1>7
  <2>2. bill[q].org \in Orgs /\ subs[bill[q].org] # None
    BY <1>7, <2>1 DEF IInv, BillShape, Shape, UpdatesHaveRow
  <2>3. bill[p].pc = "update" => bill[q].org # o
    BY <1>7, <2>1 DEF RewritesRunAlone, Rewriting
  <2> QED
    BY <2>1, <2>2, <2>3
<1>8. \A a \in Orgs: subs'[a] = None => Len(history'[a]) = 0 /\ InHistory(a)' = {}
  BY <1>3, <1>4, <1>5 DEF Recorded
<1>9. /\ \A q \in Procs: bill'[q].pc \in {"create", "update"}
            => bill'[q].event.to = bill'[q].sub.status
      /\ \A q \in Procs: bill'[q].pc = "update" => bill'[q].event.from = Now(bill[q].org)'
  <2> QED
    BY <1>1, <1>2, <1>4, <1>7 DEF Recorded, Now
<1>10. ASSUME NEW a \in Orgs, Complete(a)' PROVE Chained(a)'
  <2>1. CASE a # o
    <3>1. InHistory(a)' = InHistory(a) /\ Now(a)' = Now(a) /\ Complete(a)
      BY <1>4, <1>5, <1>10, <2>1 DEF Now, Complete
    <3>2. \A q \in InHistory(a): bill'[q] = bill[q]
      BY <1>1, <2>1 DEF InHistory
    <3> QED
      BY <3>1, <3>2 DEF Recorded, Chained, Chain, Last
  <2>2. CASE a = o
    <3>1. InHistory(o)' = {p}
      BY <1>5, <1>6
    <3>2. Complete(o)
      <4>1. Cardinality(InHistory(o)') = 1 /\ Cardinality(InHistory(o)) = 0
        BY <1>6, <3>1, FS_Singleton, FS_EmptySet
      <4>2. Len(history[o]) \in Nat /\ changes[o] \in Nat
        BY DEF IInv, TypeOK
      <4> QED
        BY <1>4, <1>10, <2>2, <4>1, <4>2 DEF Complete
    <3>3. Chain(o) /\ Last(o) = Now(o)
      BY <1>6, <3>2 DEF Recorded, Chained
    <3>4. bill[p].event.from = Last(o)
      <4>1. CASE bill[p].pc = "update"
        BY <3>3, <4>1 DEF Recorded
      <4>2. CASE bill[p].pc = "create"
        BY <3>3, <4>2 DEF Now, IInv, BillShape, Shape
      <4> QED
        BY <4>1, <4>2
    <3>5. Now(o)' = bill[p].sub.status /\ Last(o)' = Last(o) /\ Chain(o)'
      BY <1>3, <1>4, <3>3 DEF Now, Last, Chain
    <3>6. bill'[p].event.from = Last(o)' /\ bill'[p].event.to = Now(o)'
      BY <1>1, <1>2, <3>4, <3>5 DEF Recorded
    <3> QED
      BY <2>2, <3>1, <3>5, <3>6 DEF Chained
  <2> QED
    BY <2>1, <2>2
<1> QED
  BY <1>8, <1>9, <1>10 DEF Recorded

LEMMA WriteHistoryKeepsChain ==
    ASSUME IInv, Recorded, RewritesRunAlone, NEW p \in Procs, WriteHistory(p)
    PROVE  Recorded'
<1>1. PICK o \in Orgs, e \in Event:
        bill[p].pc = "history" /\ bill[p].org = o /\ bill[p].event = e
  BY DEF WriteHistory, IInv, BillShape, Shape
<1> DEFINE n == Len(history[o])
<1>2. /\ bill'[p] = NoRequest /\ \A q \in Procs: q # p => bill'[q] = bill[q]
      /\ history' = [history EXCEPT ![o] = Append(@, e)]
      /\ UNCHANGED <<subs, changes>>
  BY <1>1 DEF WriteHistory, Finish, Move, IInv, TypeOK
<1>3. /\ history[o] \in Seq(Event) /\ n \in Nat
      /\ history'[o] = Append(history[o], e) /\ Len(history'[o]) = n + 1
      /\ \A i \in 1..n: history'[o][i] = history[o][i]
      /\ history'[o][n + 1] = e
      /\ \A a \in Orgs: a # o => history'[a] = history[a]
  <2>1. history[o] \in Seq(Event) /\ history \in [Orgs -> Seq(Event)]
    BY DEF IInv, TypeOK
  <2>2. history'[o] = Append(history[o], e) /\ \A a \in Orgs: a # o => history'[a] = history[a]
    BY <1>2, <2>1
  <2> QED
    BY <2>1, <2>2
<1>4. p \in InHistory(o) /\ InHistory(o) = {p} /\ subs[o] # None
  <2>1. p \in InHistory(o)
    BY <1>1 DEF InHistory
  <2>2. \A q \in InHistory(o): q = p
    BY <1>1 DEF InHistory, RewritesRunAlone, Rewriting
  <2> QED
    BY <2>1, <2>2 DEF Recorded
<1>5. /\ InHistory(o)' = {}
      /\ \A a \in Orgs: a # o => InHistory(a)' = InHistory(a)
  BY <1>1, <1>2, <1>4, NoRequestShape DEF InHistory
<1>6. \A a \in Orgs: subs'[a] = None => Len(history'[a]) = 0 /\ InHistory(a)' = {}
  BY <1>2, <1>3, <1>4, <1>5 DEF Recorded
<1>7. /\ \A q \in Procs: bill'[q].pc \in {"create", "update"}
            => bill'[q].event.to = bill'[q].sub.status
      /\ \A q \in Procs: bill'[q].pc = "update" => bill'[q].event.from = Now(bill[q].org)'
  <2> QED
    BY <1>2, NoRequestShape DEF Recorded, Now
<1>8. ASSUME NEW a \in Orgs, Complete(a)' PROVE Chained(a)'
  <2>1. CASE a # o
    <3>1. InHistory(a)' = InHistory(a) /\ history'[a] = history[a] /\ Complete(a)
      BY <1>2, <1>3, <1>5, <1>8, <2>1 DEF Complete
    <3>2. \A q \in InHistory(a): bill'[q] = bill[q]
      BY <1>1, <1>2, <2>1 DEF InHistory
    <3>3. Chained(a)
      BY <3>1 DEF Recorded
    <3>4. Now(a)' = Now(a)
      BY <1>2 DEF Now
    <3>5. Last(a)' = Last(a)
      BY <3>1 DEF Last
    <3>6. Chain(a)'
      BY <3>1, <3>3 DEF Chained, Chain
    <3> QED
      BY <3>1, <3>2, <3>3, <3>4, <3>5, <3>6 DEF Chained
  <2>2. CASE a = o
    <3>1. Complete(o)
      <4>1. Cardinality(InHistory(o)') = 0 /\ Cardinality(InHistory(o)) = 1
        BY <1>4, <1>5, FS_EmptySet, FS_Singleton
      <4> QED
        BY <1>2, <1>3, <1>8, <2>2, <4>1 DEF Complete
    <3>2. Chain(o) /\ e.from = Last(o) /\ e.to = Now(o)
      BY <1>1, <1>4, <3>1 DEF Recorded, Chained
    <3>3. Last(o)' = e.to /\ Now(o)' = Now(o)
      BY <1>2, <1>3 DEF Last, Now
    <3>4. Chain(o)'
      <4> SUFFICES ASSUME NEW i \in 1..(n + 1)
                   PROVE  history'[o][i].from = IF i = 1 THEN None ELSE history'[o][i - 1].to
        BY <1>3 DEF Chain
      <4>1. CASE i \in 1..n
        <5>1. i # 1 => i - 1 \in 1..n
          BY <4>1
        <5>2. history[o][i].from = IF i = 1 THEN None ELSE history[o][i - 1].to
          BY <3>2, <4>1 DEF Chain
        <5> QED
          BY <1>3, <4>1, <5>1, <5>2
      <4>2. CASE i = n + 1
        <5>1. n # 0 => n \in 1..n /\ i - 1 = n /\ i # 1
          BY <1>3, <4>2
        <5>2. n = 0 => i = 1
          BY <4>2
        <5>3. e.from = IF n = 0 THEN None ELSE history[o][n].to
          BY <3>2 DEF Last
        <5> QED
          BY <1>3, <4>2, <5>1, <5>2, <5>3
      <4> QED
        BY <1>3, <4>1, <4>2
    <3> QED
      BY <1>5, <2>2, <3>2, <3>3, <3>4 DEF Chained
  <2> QED
    BY <2>1, <2>2
<1> QED
  BY <1>6, <1>7, <1>8 DEF Recorded

LEMMA StepKeepsChain ==
    ASSUME IInv, Recorded, RewritesRunAlone, NEW p \in Procs, BillStep(p)
    PROVE  Recorded'
<1>1. bill[p] \in BillRequest
  BY DEF IInv, TypeOK
<1>2. ASSUME NEW r, bill' = [bill EXCEPT ![p] = r], UNCHANGED <<subs, history, changes>>,
             r.pc \notin {"create", "update", "history"}
      PROVE  Recorded'
  BY <1>2, RecordedFrame
<1>3. ASSUME NEW o \in Orgs, NEW plan \in Plans, NEW status \in {"active", "trialing"},
             BeginCreate(p, o, plan, status)
      PROVE  Recorded'
  <2> DEFINE r == [NoRequest EXCEPT !.pc = "create", !.org = o,
                      !.sub = [plan |-> plan, status |-> status, canceledAt |-> FALSE],
                      !.event = [from |-> None, to |-> status]]
  <2>1. /\ bill' = [bill EXCEPT ![p] = r] /\ UNCHANGED <<subs, history, changes>>
        /\ r.pc = "create" /\ r.event.to = status /\ r.sub.status = status
    BY <1>3 DEF BeginCreate, Move, billTables, NoRequest
  <2> HIDE DEF r
  <2> QED
    BY <2>1, RecordedFrame
<1>4. ASSUME NEW o \in Orgs, NEW row, BeginRewrite(p, o, row) PROVE Recorded'
  <2> DEFINE r == [NoRequest EXCEPT !.pc = "update", !.org = o, !.sub = row,
                      !.event = [from |-> subs[o].status, to |-> row.status]]
  <2>1. /\ bill' = [bill EXCEPT ![p] = r] /\ UNCHANGED <<subs, history, changes>>
        /\ r.pc = "update" /\ r.org = o /\ r.event.to = row.status /\ r.sub.status = row.status
        /\ r.event.from = subs[o].status /\ subs[o] # None
    BY <1>4 DEF BeginRewrite, Move, billTables, NoRequest
  <2>2. r.event.from = Now(o)
    BY <2>1 DEF Now
  <2> HIDE DEF r
  <2> QED
    BY <2>1, <2>2, RecordedFrame
<1>5. ASSUME InsertSubscription(p) PROVE Recorded'
  <2>1. bill[p].org \in Orgs /\ bill[p].pc = "create"
    BY <1>5 DEF InsertSubscription, IInv, BillShape, Shape
  <2>2. CASE CanCreate(bill[p].org)
    BY <1>5, <2>1, <2>2, WritingKeepsChain DEF InsertSubscription, CanCreate, Move
  <2>3. CASE ~CanCreate(bill[p].org)
    BY <1>2, <1>5, <2>3, NoRequestShape DEF InsertSubscription, Finish, Move
  <2> QED
    BY <2>2, <2>3
<1>6. ASSUME UpdateRow(p) PROVE Recorded'
  <2>1. bill[p].org \in Orgs /\ bill[p].pc = "update"
    BY <1>6 DEF UpdateRow, IInv, BillShape, Shape
  <2> QED
    BY <1>6, <2>1, WritingKeepsChain DEF UpdateRow, AfterUpdate, Move
<1>7. ASSUME NEW o \in Orgs, NEW value \in Values \cup {None}, BeginOverride(p, o, value)
      PROVE  Recorded'
  <2> DEFINE r == [NoRequest EXCEPT !.pc = "overrideDelete", !.org = o, !.value = value,
                      !.rows = overrides[o], !.id = begun]
  <2>1. /\ bill' = [bill EXCEPT ![p] = r] /\ UNCHANGED <<subs, history, changes>>
        /\ r.pc = "overrideDelete"
    BY <1>7 DEF BeginOverride, Move, billTables, NoRequest
  <2> HIDE DEF r
  <2> QED
    BY <1>2, <2>1
<1>8. ASSUME DeleteRows(p) PROVE Recorded'
  <2> DEFINE r == [bill[p] EXCEPT !.pc = "overrideCommit",
                      !.rows = bill[p].rows \cap overrides[bill[p].org]]
  <2>1. r.pc = "overrideCommit"
    BY <1>1 DEF BillRequest
  <2>2. /\ bill' = [bill EXCEPT ![p] = r] \/ bill' = [bill EXCEPT ![p] = NoRequest]
        /\ UNCHANGED <<subs, history, changes>>
    BY <1>8 DEF DeleteRows, Finish, Move
  <2> HIDE DEF r
  <2> QED
    BY <1>2, <2>1, <2>2, NoRequestShape
<1>9. ASSUME CommitOverride(p) \/ Increment(p) \/ BillFail(p) PROVE Recorded'
  BY <1>2, <1>9, NoRequestShape
  DEF CommitOverride, Increment, BillFail, Finish, Move, billTables
<1>10. ASSUME NEW o \in Orgs, NEW delta \in Deltas, NEW limit \in LimitsOf(o),
              BeginCount(p, o, delta, limit)
       PROVE  Recorded'
  <2> DEFINE r == [NoRequest EXCEPT !.pc = IF limit = Unlimited THEN "increment" ELSE "usage",
                      !.org = o, !.delta = delta, !.value = limit]
  <2>1. /\ bill' = [bill EXCEPT ![p] = r] /\ UNCHANGED <<subs, history, changes>>
        /\ r.pc \in {"usage", "increment"}
    BY <1>10 DEF BeginCount, Move, billTables, NoRequest
  <2> HIDE DEF r
  <2> QED
    BY <1>2, <2>1
<1>11. ASSUME ReadUsage(p) PROVE Recorded'
  <2> DEFINE r == [bill[p] EXCEPT !.pc = "increment", !.value = None]
  <2>1. r.pc = "increment"
    BY <1>1 DEF BillRequest
  <2>2. /\ bill' = [bill EXCEPT ![p] = r] \/ bill' = [bill EXCEPT ![p] = NoRequest]
        /\ UNCHANGED <<subs, history, changes>>
    BY <1>11 DEF ReadUsage, Finish, Move, billTables
  <2> HIDE DEF r
  <2> QED
    BY <1>2, <2>1, <2>2, NoRequestShape
<1> QED
  BY <1>3, <1>4, <1>5, <1>6, <1>7, <1>8, <1>9, <1>10, <1>11, WriteHistoryKeepsChain
  DEF BillStep

\* From nothing to the status the subscription has, without a gap.
HistoryIsAChain ==
    \A o \in Orgs: Complete(o) => Chain(o) /\ (InHistory(o) = {} => Last(o) = Now(o))

(***************************************************************************)
(* Where no two requests rewrite a subscription at once, a history that    *)
(* lacks no event tells how the subscription came to be what it is, even   *)
(* if several requests have tried to create it.                            *)
(***************************************************************************)
THEOREM RewritesAloneKeepHistory == Spec /\ []RewritesRunAlone => []HistoryIsAChain
<1>1. Init => Recorded
  <2> SUFFICES ASSUME Init PROVE Recorded
    OBVIOUS
  <2>1. \A o \in Orgs: InHistory(o) = {} /\ Len(history[o]) = 0 /\ Now(o) = None
    <3>1. Len(<<>>) = 0
      OBVIOUS
    <3> QED
      BY <3>1 DEF Init, InHistory, Now, NoRequest
  <2>2. \A p \in Procs: bill[p].pc = "idle"
    BY DEF Init, NoRequest
  <2> QED
    BY <2>1, <2>2 DEF Recorded, Chained, Chain, Last
<1>2. IInv /\ Recorded /\ RewritesRunAlone /\ [Next]_vars => Recorded'
  <2> SUFFICES ASSUME IInv, Recorded, RewritesRunAlone, [Next]_vars PROVE Recorded'
    OBVIOUS
  <2>1. ASSUME UNCHANGED <<bill, subs, history, changes>> PROVE Recorded'
    BY <2>1 DEF Recorded, Complete, Chained, Chain, Last, Now, InHistory
  <2>2. ASSUME NEW p \in Procs, Register(p) PROVE Recorded'
    BY <2>1, <2>2 DEF Register, billVars, billTables
  <2>3. Tick \/ UNCHANGED vars => Recorded'
    BY <2>1 DEF Tick, vars, billVars, billTables
  <2> QED
    BY <2>2, <2>3, StepKeepsChain DEF Next, Served
<1>3. Recorded => HistoryIsAChain
  BY DEF Recorded, Chained, HistoryIsAChain
<1> QED
  BY <1>1, <1>2, <1>3, InductiveInvariant, PTL DEF Spec
===============================================================================
