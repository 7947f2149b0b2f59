------------------------- MODULE PermissionsProofs -------------------------
(***************************************************************************)
(* AnswersSurvive of Permissions, for any administrators, agents, roles    *)
(* and rules, with as many administrators at work on one agent or one role *)
(* as there are. By itself the property is not inductive: a call in        *)
(* progress is about to write a copy, and unless it has been overtaken the *)
(* copy must be what the other place holds when it is written.             *)
(***************************************************************************)
EXTENDS Permissions, TLAPS

Calls == [step : {"idle", "remember", "assign", "persist"}, subject : Subject \cup {NoRole},
          role : Role \cup {NoRole}, definition : Definition \cup {NoRole}, list : SUBSET Role]

AdminShape ==
    /\ storedRole \in [Role -> Definition \cup {NoRole}]
    /\ memoryRole \in [Role -> Definition \cup {NoRole}]
    /\ storedList \in [Subject -> SUBSET Role] /\ memoryList \in [Subject -> SUBSET Role]
    /\ roleAnswer \in [Role -> Definition \cup {NoRole, Unsure}]
    /\ listAnswer \in [Subject -> [Role -> {"assigned", "revoked", "unsure"}]]
    /\ adminCall \in [Admin -> Calls]
    /\ rolesApart \subseteq Role /\ listsApart \subseteq Subject
    /\ adminFaults \in 0..MaxAdminFault /\ adminCrashes \in 0..MaxAdminCrash

\* What a call is about to write is what the other place holds, unless calls on that role,
\* or on that agent's list, have overlapped.
CallsKept ==
    \A c \in Admin :
        \/ adminCall[c] = NoAdminCall
        \/ /\ adminCall[c].step = "remember"
           /\ adminCall[c].role \in Role
           /\ adminCall[c].role \notin rolesApart =>
                  adminCall[c].definition = storedRole[adminCall[c].role]
        \/ /\ adminCall[c].step = "assign"
           /\ adminCall[c].subject \in Subject /\ adminCall[c].role \in Role
        \/ /\ adminCall[c].step = "persist"
           /\ adminCall[c].subject \in Subject /\ adminCall[c].role \in Role
           /\ adminCall[c].subject \notin listsApart =>
                  adminCall[c].list = memoryList[adminCall[c].subject]

\* Two calls between the writes of one role, or of one list, have overlapped.
CallsApart ==
    \A c, d \in Admin : c # d =>
        /\ /\ adminCall[c].step = "remember" /\ adminCall[d].step = "remember"
           /\ adminCall[c].role = adminCall[d].role
           => adminCall[c].role \in rolesApart
        /\ /\ adminCall[c].step = "persist" /\ adminCall[d].step = "persist"
           /\ adminCall[c].subject = adminCall[d].subject
           => adminCall[c].subject \in listsApart

RolesSettled ==
    \A r \in Role :
        /\ RoleQuiet(r) /\ r \notin rolesApart => memoryRole[r] = storedRole[r]
        /\ roleAnswer[r] # Unsure =>
              /\ RoleQuiet(r) /\ r \notin rolesApart
              /\ \/ storedRole[r] = roleAnswer[r]
                 \/ roleAnswer[r] = NoRole /\ r \in DOMAIN Builtin

\* While overlapping calls are still to persist a list, nothing is known of it.
ListsSettled ==
    \A a \in Subject :
        /\ ListQuiet(a) /\ a \notin listsApart => memoryList[a] = storedList[a]
        /\ ~ListQuiet(a) /\ a \in listsApart => \A r \in Role : listAnswer[a][r] = "unsure"
        /\ \A r \in Role :
              /\ listAnswer[a][r] = "assigned" => r \in memoryList[a] /\ r \in storedList[a]
              /\ listAnswer[a][r] = "revoked" => r \notin memoryList[a] /\ r \notin storedList[a]

AdminInv == AdminShape /\ CallsKept /\ CallsApart /\ RolesSettled /\ ListsSettled

-----------------------------------------------------------------------------
\* An idle administrator's call is a call.
LEMMA NoAdminCallFacts == NoAdminCall \in Calls /\ NoAdminCall.step = "idle"
  BY DEF NoAdminCall, AdminCall, Calls

\* NewPermissionManager on an empty store.
LEMMA AdminInvInit == AdminInit => AdminInv
<1> SUFFICES ASSUME AdminInit PROVE AdminInv
    OBVIOUS
<1>1. storedRole \in [Role -> Definition \cup {NoRole}]
    BY BuiltinAssumption DEF AdminInit
<1>2. AdminShape
    BY <1>1, NoAdminCallFacts, AdminBound DEF AdminInit, AdminShape
<1>3. CallsKept /\ CallsApart
    BY NoAdminCallFacts DEF AdminInit, CallsKept, CallsApart
<1>4. RolesSettled
    BY NoAdminCallFacts DEF AdminInit, RolesSettled, RoleQuiet
<1>5. ListsSettled
    BY NoAdminCallFacts DEF AdminInit, ListsSettled, ListQuiet
<1> QED BY <1>2, <1>3, <1>4, <1>5 DEF AdminInv

-----------------------------------------------------------------------------
\* CreateRole and DeleteRole write the store.
LEMMA PutRoleKeeps ==
    ASSUME AdminInv, NEW c \in Admin, NEW r \in Role,
           NEW d \in Definition \cup {NoRole}, PutRole(c, r, d)
    PROVE  AdminInv'
<1> USE DEF AdminInv, apartVars, adminBounds
<1> DEFINE k == AdminCall("remember", NoRole, r, d, {})
<1>1. k \in Calls /\ k.step = "remember" /\ k.role = r /\ k.definition = d
    BY DEF AdminCall, Calls
<1>2. /\ adminCall' = [adminCall EXCEPT ![c] = k]
      /\ adminCall[c] = NoAdminCall
      /\ storedRole' = [storedRole EXCEPT ![r] = d]
      /\ roleAnswer' = [roleAnswer EXCEPT ![r] = Unsure]
      /\ rolesApart' = IF RoleQuiet(r) THEN rolesApart \ {r} ELSE rolesApart \cup {r}
      /\ UNCHANGED <<storedList, memoryRole, memoryList, listAnswer, listsApart, adminFaults,
                     adminCrashes>>
    BY DEF PutRole, Overtakes
<1> HIDE DEF k
<1>3. AdminShape'
    BY <1>1, <1>2 DEF AdminShape
<1>4. CallsKept'
  <2> SUFFICES ASSUME NEW e \in Admin PROVE CallsKept!(e)'
      BY DEF CallsKept
  <2>1. CASE e = c
      BY <1>1, <1>2, <2>1 DEF AdminShape
  <2>2. CASE e # c
    <3>1. adminCall'[e] = adminCall[e]
        BY <1>2, <2>2 DEF AdminShape
    <3>2. adminCall[e].step = "remember" /\ adminCall[e].role = r => r \in rolesApart'
        BY <1>2 DEF RoleQuiet
    <3>3. \A s \in Role : s # r => storedRole'[s] = storedRole[s]
                                   /\ (s \in rolesApart' <=> s \in rolesApart)
        BY <1>2 DEF AdminShape
    <3> QED BY <1>2, <3>1, <3>2, <3>3 DEF CallsKept
  <2> QED BY <2>1, <2>2
<1>5. CallsApart'
    BY <1>1, <1>2, NoAdminCallFacts DEF AdminShape, CallsApart, RoleQuiet
<1>6. \A s \in Role : RoleQuiet(s)' => s # r /\ RoleQuiet(s)
    BY <1>1, <1>2, NoAdminCallFacts DEF AdminShape, RoleQuiet
<1>7. \A s \in Role : s # r /\ RoleQuiet(s) => RoleQuiet(s)'
    BY <1>1, <1>2 DEF AdminShape, RoleQuiet
<1>8. RolesSettled'
    BY <1>2, <1>6, <1>7 DEF AdminShape, RolesSettled
<1>9. \A a \in Subject : ListQuiet(a)' <=> ListQuiet(a)
    BY <1>1, <1>2, NoAdminCallFacts DEF AdminShape, ListQuiet
<1>10. ListsSettled'
    BY <1>2, <1>9 DEF ListsSettled
<1> QED BY <1>3, <1>4, <1>5, <1>8, <1>10

\* ... and then the memory: the same definition, unless they were overtaken.
LEMMA RememberRoleKeeps ==
    ASSUME AdminInv, NEW c \in Admin, RememberRole(c)
    PROVE  AdminInv'
<1> USE DEF AdminInv, apartVars, adminBounds
<1>1. PICK r \in Role, d \in Definition \cup {NoRole} :
          /\ r = adminCall[c].role /\ d = adminCall[c].definition
          /\ r \notin rolesApart => d = storedRole[r]
    BY NoAdminCallFacts DEF RememberRole, CallsKept, AdminShape, Calls
<1>2. /\ adminCall' = [adminCall EXCEPT ![c] = NoAdminCall]
      /\ memoryRole' = [memoryRole EXCEPT ![r] = d]
      /\ roleAnswer' = [roleAnswer EXCEPT ![r] = IF r \in rolesApart THEN Unsure ELSE d]
      /\ UNCHANGED <<storedRole, storedList, memoryList, listAnswer, rolesApart, listsApart,
                     adminFaults, adminCrashes>>
    BY <1>1 DEF RememberRole
<1>3. adminCall[c].step = "remember"
    BY DEF RememberRole
<1>4. AdminShape'
    BY <1>1, <1>2, NoAdminCallFacts DEF AdminShape
<1>5. CallsKept' /\ CallsApart'
    BY <1>2, NoAdminCallFacts DEF AdminShape, CallsKept, CallsApart
<1>6. r \notin rolesApart => RoleQuiet(r)'
    BY <1>1, <1>2, <1>3, NoAdminCallFacts DEF AdminShape, CallsApart, RoleQuiet
<1>7. \A s \in Role : s # r => (RoleQuiet(s)' <=> RoleQuiet(s))
    BY <1>1, <1>2, NoAdminCallFacts DEF AdminShape, RoleQuiet
<1>8. RolesSettled'
    BY <1>1, <1>2, <1>6, <1>7 DEF AdminShape, RolesSettled
<1>9. \A a \in Subject : ListQuiet(a)' <=> ListQuiet(a)
    BY <1>2, <1>3, NoAdminCallFacts DEF AdminShape, ListQuiet
<1>10. ListsSettled'
    BY <1>2, <1>9 DEF ListsSettled
<1> QED BY <1>4, <1>5, <1>8, <1>10

\* AssignRole's first lock changes nothing.
LEMMA FindRoleKeeps ==
    ASSUME AdminInv, NEW c \in Admin, NEW a \in Subject, NEW r \in Role, FindRole(c, a, r)
    PROVE  AdminInv'
<1> USE DEF AdminInv, apartVars, adminBounds
<1> DEFINE k == AdminCall("assign", a, r, NoRole, {})
<1>1. k \in Calls /\ k.step = "assign" /\ k.subject = a /\ k.role = r
    BY DEF AdminCall, Calls
<1>2. /\ adminCall' = [adminCall EXCEPT ![c] = k]
      /\ adminCall[c] = NoAdminCall
      /\ UNCHANGED <<storedRole, storedList, memoryRole, memoryList, roleAnswer, listAnswer,
                     rolesApart, listsApart, adminFaults, adminCrashes>>
    BY DEF FindRole
<1> HIDE DEF k
<1>3. AdminShape'
    BY <1>1, <1>2 DEF AdminShape
<1>4. CallsKept' /\ CallsApart'
    BY <1>1, <1>2 DEF AdminShape, CallsKept, CallsApart
<1>5. \A s \in Role : RoleQuiet(s)' <=> RoleQuiet(s)
    BY <1>1, <1>2, NoAdminCallFacts DEF AdminShape, RoleQuiet
<1>6. \A b \in Subject : ListQuiet(b)' <=> ListQuiet(b)
    BY <1>1, <1>2, NoAdminCallFacts DEF AdminShape, ListQuiet
<1>7. RolesSettled' /\ ListsSettled'
    BY <1>2, <1>5, <1>6 DEF RolesSettled, ListsSettled
<1> QED BY <1>3, <1>4, <1>7

-----------------------------------------------------------------------------
\* A list that differs from the one in memory at one role only.
LEMMA ChangeListKeeps ==
    ASSUME AdminInv, NEW c \in Admin, NEW a \in Subject, NEW r \in Role,
           adminCall[c].step \notin {"remember", "persist"},
           NEW list \in SUBSET Role, list \ {r} = memoryList[a] \ {r},
           ChangeList(c, a, r, list),
           UNCHANGED <<storedRole, storedList, memoryRole, roleAnswer, rolesApart, adminBounds>>
    PROVE  AdminInv'
<1> USE DEF AdminInv, adminBounds
<1> DEFINE k == AdminCall("persist", a, r, NoRole, list)
<1>1. /\ k \in Calls /\ k.step = "persist" /\ k.subject = a /\ k.role = r /\ k.list = list
    BY DEF AdminCall, Calls
<1>2. /\ adminCall' = [adminCall EXCEPT ![c] = k]
      /\ memoryList' = [memoryList EXCEPT ![a] = list]
      /\ listAnswer' = [listAnswer EXCEPT ![a] =
              [x \in Role |-> IF x = r \/ ~ListQuiet(a) THEN "unsure" ELSE listAnswer[a][x]]]
      /\ listsApart' = IF ListQuiet(a) THEN listsApart \ {a} ELSE listsApart \cup {a}
    BY DEF ChangeList, ListChanged, AdminShape, Overtakes
<1> HIDE DEF k
<1>3. /\ \A b \in Subject \ {a} : /\ listAnswer'[b] = listAnswer[b]
                                  /\ memoryList'[b] = memoryList[b]
                                  /\ b \in listsApart' <=> b \in listsApart
      /\ memoryList'[a] = list
      /\ \A x \in Role : listAnswer'[a][x] =
              IF x = r \/ ~ListQuiet(a) THEN "unsure" ELSE listAnswer[a][x]
    BY <1>2 DEF AdminShape
<1>4. AdminShape'
  <2>1. \A x \in Role : (IF x = r \/ ~ListQuiet(a) THEN "unsure" ELSE listAnswer[a][x])
                            \in {"assigned", "revoked", "unsure"}
      BY DEF AdminShape
  <2>2. listAnswer' \in [Subject -> [Role -> {"assigned", "revoked", "unsure"}]]
      BY <1>2, <2>1 DEF AdminShape
  <2> QED BY <1>1, <1>2, <2>2 DEF AdminShape
<1>5. CallsKept'
  <2> SUFFICES ASSUME NEW e \in Admin PROVE CallsKept!(e)'
      BY DEF CallsKept
  <2>1. CASE e = c
      BY <1>1, <1>2, <1>3, <2>1 DEF AdminShape
  <2>2. CASE e # c
    <3>1. adminCall'[e] = adminCall[e]
        BY <1>2, <2>2 DEF AdminShape
    <3>2. adminCall[e].step = "persist" /\ adminCall[e].subject = a => a \in listsApart'
        BY <1>2 DEF ListQuiet
    <3> QED BY <1>3, <3>1, <3>2 DEF CallsKept
  <2> QED BY <2>1, <2>2
<1>6. CallsApart'
    BY <1>1, <1>2 DEF AdminShape, CallsApart, ListQuiet
<1>7. \A s \in Role : RoleQuiet(s)' <=> RoleQuiet(s)
    BY <1>1, <1>2 DEF AdminShape, RoleQuiet
<1>8. RolesSettled'
    BY <1>7 DEF RolesSettled
<1>9. /\ ~ListQuiet(a)'
      /\ \A b \in Subject \ {a} : ListQuiet(b)' <=> ListQuiet(b)
    BY <1>1, <1>2 DEF AdminShape, ListQuiet
<1>10. ListsSettled'
  <2> SUFFICES ASSUME NEW b \in Subject PROVE ListsSettled!(b)'
      BY DEF ListsSettled
  <2>1. CASE b # a
      BY <1>3, <1>9, <2>1 DEF ListsSettled
  <2>2. CASE b = a
    <3>1. a \in listsApart' => ~ListQuiet(a)
        BY <1>2
    <3>2. ASSUME NEW s \in Role, listAnswer'[a][s] # "unsure"
          PROVE  /\ listAnswer'[a][s] = listAnswer[a][s]
                 /\ s \in memoryList'[a] <=> s \in memoryList[a]
        BY <1>3, <3>2
    <3> QED BY <1>3, <1>9, <2>2, <3>1, <3>2 DEF ListsSettled
  <2> QED BY <2>1, <2>2
<1> QED BY <1>4, <1>5, <1>6, <1>8, <1>10

\* AssignRole's second lock: the role is there already, or the list changes.
LEMMA AssignKeeps ==
    ASSUME AdminInv, NEW c \in Admin, Assign(c)
    PROVE  AdminInv'
<1> USE DEF AdminInv, adminBounds
<1> DEFINE a == adminCall[c].subject
           r == adminCall[c].role
<1>1. /\ adminCall[c].step = "assign" /\ a \in Subject /\ r \in Role
      /\ UNCHANGED <<storedRole, storedList, memoryRole, roleAnswer, rolesApart, adminFaults,
                     adminCrashes>>
    BY NoAdminCallFacts DEF Assign, CallsKept
<1>2. CASE r \in memoryList[a]
  <2>1. /\ listAnswer' = [listAnswer EXCEPT ![a][r] =
              IF ListQuiet(a) /\ a \notin listsApart THEN "assigned" ELSE listAnswer[a][r]]
        /\ adminCall' = [adminCall EXCEPT ![c] = NoAdminCall]
        /\ UNCHANGED <<memoryList, listsApart>>
      BY <1>1, <1>2 DEF Assign, AdminShape
  <2>2. ListQuiet(a) /\ a \notin listsApart => r \in storedList[a]
      BY <1>1, <1>2 DEF ListsSettled
  <2>3. /\ \A s \in Role : RoleQuiet(s)' <=> RoleQuiet(s)
        /\ \A b \in Subject : ListQuiet(b)' <=> ListQuiet(b)
      BY <1>1, <2>1, NoAdminCallFacts DEF AdminShape, RoleQuiet, ListQuiet
  <2> HIDE DEF a, r
  <2>4. \/ listAnswer' = listAnswer
        \/ /\ ListQuiet(a) /\ a \notin listsApart /\ r \in storedList[a]
           /\ listAnswer' = [listAnswer EXCEPT ![a][r] = "assigned"]
      BY <1>1, <2>1, <2>2 DEF AdminShape
  <2>5. AdminShape'
      BY <1>1, <2>1, <2>4, NoAdminCallFacts DEF AdminShape
  <2>6. CallsKept' /\ CallsApart'
      BY <1>1, <2>1, NoAdminCallFacts DEF AdminShape, CallsKept, CallsApart
  <2>7. RolesSettled'
      BY <1>1, <2>3 DEF RolesSettled
  <2>8. ListsSettled'
      BY <1>1, <1>2, <2>1, <2>3, <2>4 DEF AdminShape, ListsSettled
  <2> QED BY <2>5, <2>6, <2>7, <2>8
<1>3. CASE r \notin memoryList[a]
  <2>1. ChangeList(c, a, r, memoryList[a] \cup {r})
      BY <1>3 DEF Assign
  <2>2. memoryList[a] \cup {r} \in SUBSET Role
      BY <1>1 DEF AdminShape
  <2> HIDE DEF a, r
  <2> QED BY <1>1, <2>1, <2>2, ChangeListKeeps
<1> QED BY <1>2, <1>3

\* RevokeRole changes the list.
LEMMA RevokeKeeps ==
    ASSUME AdminInv, NEW c \in Admin, NEW a \in Subject, NEW r \in Role, Revoke(c, a, r)
    PROVE  AdminInv'
<1>1. /\ adminCall[c].step = "idle"
      /\ ChangeList(c, a, r, memoryList[a] \ {r})
      /\ UNCHANGED <<storedRole, storedList, memoryRole, roleAnswer, rolesApart, adminBounds>>
    BY NoAdminCallFacts DEF Revoke
<1>2. memoryList[a] \ {r} \in SUBSET Role
    BY DEF AdminInv, AdminShape
<1> QED BY <1>1, <1>2, ChangeListKeeps

\* The list is persisted: what the memory holds, unless the call was overtaken.
LEMMA PersistListKeeps ==
    ASSUME AdminInv, NEW c \in Admin, PersistList(c)
    PROVE  AdminInv'
<1> USE DEF AdminInv, apartVars, adminBounds
<1>1. PICK a \in Subject, r \in Role, list \in SUBSET Role :
          /\ adminCall[c].step = "persist"
          /\ a = adminCall[c].subject /\ r = adminCall[c].role /\ list = adminCall[c].list
          /\ a \notin listsApart => list = memoryList[a]
    BY NoAdminCallFacts DEF PersistList, CallsKept, AdminShape, Calls
<1> DEFINE told == IF a \in listsApart THEN "unsure" ELSE IF r \in list THEN "assigned" ELSE "revoked"
<1>2. /\ storedList' = [storedList EXCEPT ![a] = list]
      /\ listAnswer' = [listAnswer EXCEPT ![a][r] = told]
      /\ adminCall' = [adminCall EXCEPT ![c] = NoAdminCall]
      /\ UNCHANGED <<storedRole, memoryRole, memoryList, roleAnswer, rolesApart, listsApart,
                     adminFaults, adminCrashes>>
    BY <1>1 DEF PersistList, ListToStore
<1>3. /\ \A b \in Subject : b # a => (ListQuiet(b)' <=> ListQuiet(b))
      /\ ~ListQuiet(a)
      /\ a \notin listsApart => ListQuiet(a)'
  <2>1. /\ adminCall'[c].step = "idle" /\ adminCall[c].subject = a
        /\ \A d \in Admin : d # c => adminCall'[d] = adminCall[d]
      BY <1>1, <1>2, NoAdminCallFacts DEF AdminShape
  <2>2. a \notin listsApart =>
            \A d \in Admin : d # c /\ adminCall[d].step = "persist" => adminCall[d].subject # a
      BY <1>1, <2>1 DEF CallsApart
  <2> HIDE DEF told
  <2> QED BY <1>1, <2>1, <2>2 DEF ListQuiet
<1>4. \A s \in Role : RoleQuiet(s)' <=> RoleQuiet(s)
    BY <1>1, <1>2, NoAdminCallFacts DEF AdminShape, RoleQuiet
<1>5. told \in {"assigned", "revoked", "unsure"}
    OBVIOUS
<1>6. /\ a \in listsApart => told = "unsure"
      /\ a \notin listsApart => told = IF r \in list THEN "assigned" ELSE "revoked"
    OBVIOUS
<1> HIDE DEF told
<1>7. AdminShape'
    BY <1>1, <1>2, <1>5, NoAdminCallFacts DEF AdminShape
<1>8. CallsKept' /\ CallsApart'
    BY <1>2, NoAdminCallFacts DEF AdminShape, CallsKept, CallsApart
<1>9. RolesSettled'
    BY <1>2, <1>4 DEF RolesSettled
<1>10. ListsSettled'
  <2> SUFFICES ASSUME NEW b \in Subject PROVE ListsSettled!(b)'
      BY DEF ListsSettled
  <2>1. CASE b # a
      BY <1>2, <1>3, <2>1 DEF AdminShape, ListsSettled
  <2>2. CASE b = a /\ a \in listsApart
    <3>1. \A s \in Role : listAnswer'[a][s] = "unsure"
        BY <1>1, <1>2, <1>3, <1>6, <2>2 DEF AdminShape, ListsSettled
    <3> QED BY <1>2, <2>2, <3>1
  <2>3. CASE b = a /\ a \notin listsApart
    <3>1. storedList'[a] = memoryList[a] /\ memoryList'[a] = memoryList[a]
        BY <1>1, <1>2, <2>3 DEF AdminShape
    <3>2. ASSUME NEW s \in Role, s # r PROVE listAnswer'[a][s] = listAnswer[a][s]
        BY <1>1, <1>2, <3>2 DEF AdminShape
    <3>3. listAnswer'[a][r] = IF r \in memoryList[a] THEN "assigned" ELSE "revoked"
        BY <1>1, <1>2, <1>6, <2>3 DEF AdminShape
    <3> QED BY <1>2, <1>3, <2>3, <3>1, <3>2, <3>3 DEF ListsSettled
  <2> QED BY <2>1, <2>2, <2>3
<1> QED BY <1>7, <1>8, <1>9, <1>10

\* The list is not persisted: memory and store are apart from then on.
LEMMA FailPersistKeeps ==
    ASSUME AdminInv, NEW c \in Admin, FailPersist(c)
    PROVE  AdminInv'
<1> USE DEF AdminInv
<1>1. PICK a \in Subject : adminCall[c].step = "persist" /\ a = adminCall[c].subject
    BY NoAdminCallFacts DEF FailPersist, CallsKept
<1>2. /\ adminCall' = [adminCall EXCEPT ![c] = NoAdminCall]
      /\ listsApart' = listsApart \cup {a}
      /\ adminFaults' = adminFaults + 1 /\ adminFaults < MaxAdminFault
      /\ UNCHANGED <<storedRole, storedList, memoryRole, memoryList, roleAnswer, listAnswer,
                     rolesApart, adminCrashes>>
    BY <1>1 DEF FailPersist
<1>3. /\ \A b \in Subject : b # a => (ListQuiet(b)' <=> ListQuiet(b))
      /\ ~ListQuiet(a)
      /\ ~ListQuiet(a)' => a \in listsApart
  <2>1. /\ adminCall'[c].step = "idle" /\ adminCall[c].subject = a
        /\ \A d \in Admin : d # c => adminCall'[d] = adminCall[d]
      BY <1>1, <1>2, NoAdminCallFacts DEF AdminShape
  <2>2. a \notin listsApart =>
            \A d \in Admin : d # c /\ adminCall[d].step = "persist" => adminCall[d].subject # a
      BY <1>1, <2>1 DEF CallsApart
  <2> QED BY <1>1, <2>1, <2>2 DEF ListQuiet
<1>4. \A s \in Role : RoleQuiet(s)' <=> RoleQuiet(s)
    BY <1>1, <1>2, NoAdminCallFacts DEF AdminShape, RoleQuiet
<1>5. AdminShape'
    BY <1>1, <1>2, NoAdminCallFacts, AdminBound DEF AdminShape
<1>6. CallsKept' /\ CallsApart'
    BY <1>2, NoAdminCallFacts DEF AdminShape, CallsKept, CallsApart
<1>7. RolesSettled'
    BY <1>2, <1>4 DEF RolesSettled
<1>8. ListsSettled'
  <2> SUFFICES ASSUME NEW b \in Subject PROVE ListsSettled!(b)'
      BY DEF ListsSettled
  <2>1. CASE b # a
      BY <1>2, <1>3, <2>1 DEF ListsSettled
  <2>2. CASE b = a
      BY <1>1, <1>2, <1>3, <2>2 DEF ListsSettled
  <2> QED BY <2>1, <2>2
<1> QED BY <1>5, <1>6, <1>7, <1>8

\* The process dies, and NewPermissionManager reads the store.
LEMMA ReloadKeeps == AdminInv /\ Reload => AdminInv'
<1> SUFFICES ASSUME AdminInv, Reload PROVE AdminInv'
    OBVIOUS
<1> USE DEF AdminInv
<1> DEFINE loaded == [r \in Role |-> IF storedRole[r] = NoRole /\ r \in DOMAIN Builtin
                                     THEN Builtin[r] ELSE storedRole[r]]
<1>1. /\ storedRole' = loaded /\ memoryRole' = loaded /\ memoryList' = storedList
      /\ adminCall' = [c \in Admin |-> NoAdminCall]
      /\ rolesApart' = {} /\ listsApart' = {}
      /\ adminCrashes < MaxAdminCrash /\ adminCrashes' = adminCrashes + 1
      /\ UNCHANGED <<storedList, roleAnswer, listAnswer, adminFaults>>
    BY DEF Reload
<1>2. loaded \in [Role -> Definition \cup {NoRole}]
    BY BuiltinAssumption DEF AdminShape
<1>3. \A r \in Role : loaded[r] # storedRole[r] => storedRole[r] = NoRole /\ r \in DOMAIN Builtin
    OBVIOUS
<1> HIDE DEF loaded
<1>4. AdminShape'
    BY <1>1, <1>2, NoAdminCallFacts, AdminBound DEF AdminShape
<1>5. CallsKept' /\ CallsApart'
    BY <1>1, NoAdminCallFacts DEF CallsKept, CallsApart
<1>6. RolesSettled'
    BY <1>1, <1>3, NoAdminCallFacts DEF RolesSettled, RoleQuiet
<1>7. ListsSettled'
    BY <1>1 DEF ListsSettled
<1> QED BY <1>4, <1>5, <1>6, <1>7

-----------------------------------------------------------------------------
\* Every step of every administrator, and every restart.
LEMMA AdminInvStep ==
    ASSUME AdminInv, [AdminNext]_adminVars
    PROVE  AdminInv'
<1>1. ASSUME NEW c \in Admin, NEW r \in Role, NEW d \in Definition \cup {NoRole},
             PutRole(c, r, d)
      PROVE  AdminInv'
    BY <1>1, PutRoleKeeps
<1>2. ASSUME NEW c \in Admin, NEW a \in Subject, NEW r \in Role,
             FindRole(c, a, r) \/ Revoke(c, a, r)
      PROVE  AdminInv'
    BY <1>2, FindRoleKeeps, RevokeKeeps
<1>3. ASSUME NEW c \in Admin, RememberRole(c) \/ Assign(c) \/ PersistList(c) \/ FailPersist(c)
      PROVE  AdminInv'
    BY <1>3, RememberRoleKeeps, AssignKeeps, PersistListKeeps, FailPersistKeeps
<1>4. CASE Reload
    BY <1>4, ReloadKeeps
<1>5. CASE UNCHANGED adminVars
    BY <1>5 DEF adminVars, apartVars, adminBounds, AdminInv, AdminShape, CallsKept, CallsApart,
                RolesSettled, ListsSettled, RoleQuiet, ListQuiet
<1> QED BY <1>1, <1>2, <1>3, <1>4, <1>5 DEF AdminNext

\* What the invariant is for: a settled answer is in both places, because the two places
\* agree wherever no call is between its two writes and none was overtaken.
LEMMA AdminInvImplies == AdminInv => AdminTypeOK /\ AnswersSurvive
<1> SUFFICES ASSUME AdminInv PROVE AdminTypeOK /\ AnswersSurvive
    OBVIOUS
<1> USE DEF AdminInv
<1>1. AdminTypeOK
    BY DEF AdminShape, CallsKept, AdminTypeOK, Calls
<1>2. AnswersSurvive
    BY DEF AdminShape, RolesSettled, ListsSettled, AnswersSurvive
<1> QED BY <1>1, <1>2

\* The invariant holds for ever.
LEMMA AdminInvAlways == AdminSpec => []AdminInv
<1>1. AdminInit => AdminInv
    BY AdminInvInit
<1>2. AdminInv /\ [AdminNext]_adminVars => AdminInv'
    BY AdminInvStep
<1> QED BY <1>1, <1>2, PTL DEF AdminSpec

\* The shapes of the memory, the store and the calls of permission.go.
THEOREM AdminTypeCorrect == AdminSpec => []AdminTypeOK
  BY AdminInvAlways, AdminInvImplies, PTL

\* Any number of administrators, on whatever agents and roles: what CreateRole, DeleteRole,
\* AssignRole or RevokeRole answered stays so in the memory and in the store, through failing
\* writes and restarts, unless two changes of the same role or list overlapped.
THEOREM AnswersAlwaysSurvive == AdminSpec => []AnswersSurvive
  BY AdminInvAlways, AdminInvImplies, PTL

\* A rule for all resources, scopes and actions matches every want.
LEMMA UnrestrictedMatches ==
    ASSUME NEW rule, NEW want, Unrestricted(rule)
    PROVE  Matches(rule, want)
  BY DEF Unrestricted, Matches, MatchResource, MatchAction, MatchScope

\* What the checks decide follows from where the answers are: an assigned role is in the
\* list that is checked, with the definition that was answered, and a list whose roles
\* were all revoked is empty.
LEMMA SurvivingDecides == AdminTypeOK /\ AnswersSurvive => AnswersDecide
<1> SUFFICES ASSUME AdminTypeOK, AnswersSurvive, NEW a \in Subject PROVE AnswersDecide!(a)
    BY DEF AnswersDecide
<1>1. ASSUME NEW r \in Role, listAnswer[a][r] = "assigned", roleAnswer[r] \in Definition,
             NEW rule \in roleAnswer[r], Unrestricted(rule), NEW want \in Wants
      PROVE  Allowed(a, want)
  <2>1. r \in memoryList[a] /\ memoryRole[r] = roleAnswer[r] /\ memoryRole[r] # NoRole
      BY <1>1, NoRoleAssumption DEF AnswersSurvive
  <2> QED BY <1>1, <2>1, UnrestrictedMatches DEF Allowed
<1>2. ASSUME \A r \in Role : listAnswer[a][r] = "revoked", NEW want \in Wants
      PROVE  ~Allowed(a, want)
    BY <1>2 DEF AdminTypeOK, AnswersSurvive, Allowed
<1> QED BY <1>1, <1>2

\* permission.go:285: an agent that was assigned an administrator's role is allowed
\* whatever it asks for, and one whose roles were all revoked nothing, for any rules,
\* scopes and wants.
THEOREM AnswersAlwaysDecide == AdminSpec => []AnswersDecide
  BY AdminInvAlways, AdminInvImplies, SurvivingDecides, PTL
=============================================================================
