---------------------------- MODULE Permissions ----------------------------
(***************************************************************************)
(* Roles and their assignment: internal/agent/permission.go.               *)
(*                                                                         *)
(* Roles and role lists are kept in memory, under p.mu, and in the store.  *)
(* A change of a list is made in memory first and persisted after the      *)
(* unlock; a change of a role is made in the store first. Checks read the  *)
(* memory only, and a restart reads the store only. Nothing orders the two *)
(* writes of one call and those of another.                                *)
(***************************************************************************)
EXTENDS Integers, Sequences, FiniteSets

CONSTANTS Admin, Subject, Role,
          Definition,      \* the sets of rules a role may have
          Builtin,         \* the built-in roles, with their definitions
          Wants,           \* what agents ask for: a resource, an action, a scope
          NoRole, Unsure,
          MaxAdminFault,   \* bound on failing writes
          MaxAdminCrash    \* bound on restarts

ASSUME BuiltinAssumption == DOMAIN Builtin \subseteq Role /\ \A r \in DOMAIN Builtin : Builtin[r] \in Definition
ASSUME NoRoleAssumption == NoRole \notin Definition /\ Unsure \notin Definition \cup {NoRole}
ASSUME AdminBound == MaxAdminFault \in Nat /\ MaxAdminCrash \in Nat

VARIABLES
    storedRole, storedList,   \* the store: role definitions, role lists
    memoryRole, memoryList,   \* p.roles, p.agents
    adminCall,                \* what each admin is doing
    roleAnswer, listAnswer,   \* what the last finished call said of a role, of an assignment
    rolesApart, listsApart,   \* history: the roles and agents of which memory and store
                              \* may differ although no call is at work on them
    adminFaults, adminCrashes

apartVars == <<rolesApart, listsApart>>
adminBounds == <<adminFaults, adminCrashes>>
adminVars == <<storedRole, storedList, memoryRole, memoryList, adminCall, roleAnswer, listAnswer,
               apartVars, adminBounds>>

\* A call: the role's definition or the agent's list it is about to write.
AdminCall(step, a, r, definition, list) ==
    [step |-> step, subject |-> a, role |-> r, definition |-> definition, list |-> list]

NoAdminCall == AdminCall("idle", NoRole, NoRole, NoRole, {})

AdminInit ==
    /\ storedRole = [r \in Role |-> IF r \in DOMAIN Builtin THEN Builtin[r] ELSE NoRole]
    /\ memoryRole = storedRole
    /\ storedList = [a \in Subject |-> {}]
    /\ memoryList = storedList
    /\ adminCall = [c \in Admin |-> NoAdminCall]
    /\ roleAnswer = storedRole
    /\ listAnswer = [a \in Subject |-> [r \in Role |-> "revoked"]]
    /\ rolesApart = {} /\ listsApart = {}
    /\ adminFaults = 0 /\ adminCrashes = 0

-----------------------------------------------------------------------------
(* Checks. A rule names a resource, an action and a scope; "*" stands for  *)
(* all of them. A scope is a sequence of letters.                          *)

MatchResource(pattern, want) == pattern \in {"*", want}

\* Mutant: admin is an action like the others.
MatchPlain(pattern, want) == pattern \in {"*", want}

MatchAction(pattern, want) == pattern \in {"*", want, "admin"}

StartsWith(s, prefix) ==
    Len(prefix) <= Len(s) /\ \A i \in DOMAIN prefix : s[i] = prefix[i]

MatchScope(pattern, want) ==
    \/ pattern \in {<< >>, <<"*">>, want}
    \/ /\ pattern[Len(pattern)] = "*"
       /\ StartsWith(want, SubSeq(pattern, 1, Len(pattern) - 1))

Matches(rule, want) ==
    /\ MatchResource(rule.resource, want.resource)
    /\ MatchAction(rule.action, want.action)
    /\ MatchScope(rule.scope, want.scope)

\* evaluate: one rule of one role of the agent's list; deleted roles are passed over.
Allowed(a, want) ==
    \E r \in memoryList[a] : memoryRole[r] # NoRole /\ \E rule \in memoryRole[r] : Matches(rule, want)

-----------------------------------------------------------------------------
(* CreateRole and DeleteRole.                                              *)

\* No call is between the two writes of role r, or of the list of agent a.
RoleQuiet(r) == \A c \in Admin : adminCall[c].step = "remember" => adminCall[c].role # r
ListQuiet(a) == \A c \in Admin : adminCall[c].step = "persist" => adminCall[c].subject # a

\* A change that begins while another is between its two writes may end in the other
\* order in memory; one that begins alone will settle both places.
Overtakes(quiet, apart, x) == IF quiet THEN apart \ {x} ELSE apart \cup {x}

\* The store comes first. (Where it fails nothing has changed.)
PutRole(c, r, definition) ==
    /\ adminCall[c] = NoAdminCall
    /\ storedRole' = [storedRole EXCEPT ![r] = definition]
    /\ adminCall' = [adminCall EXCEPT ![c] = AdminCall("remember", NoRole, r, definition, {})]
    /\ roleAnswer' = [roleAnswer EXCEPT ![r] = Unsure]
    /\ rolesApart' = Overtakes(RoleQuiet(r), rolesApart, r)
    /\ UNCHANGED <<storedList, memoryRole, memoryList, listAnswer, listsApart, adminBounds>>

RememberRole(c) ==
    LET k == adminCall[c]
    IN  /\ k.step = "remember"
        /\ memoryRole' = [memoryRole EXCEPT ![k.role] = k.definition]
        /\ roleAnswer' = [roleAnswer EXCEPT ![k.role] =
                             IF k.role \in rolesApart THEN Unsure ELSE k.definition]
        /\ adminCall' = [adminCall EXCEPT ![c] = NoAdminCall]
        /\ UNCHANGED <<storedRole, storedList, memoryList, listAnswer, apartVars, adminBounds>>

-----------------------------------------------------------------------------
(* AssignRole and RevokeRole.                                              *)

\* AssignRole looks the role up under one lock and changes the list under another.
FindRole(c, a, r) ==
    /\ adminCall[c] = NoAdminCall
    /\ memoryRole[r] # NoRole
    /\ adminCall' = [adminCall EXCEPT ![c] = AdminCall("assign", a, r, NoRole, {})]
    /\ UNCHANGED <<storedRole, storedList, memoryRole, memoryList, roleAnswer, listAnswer,
                   apartVars, adminBounds>>

ListChanged(a, list) == [memoryList EXCEPT ![a] = list]

\* The list changes in memory; the copy to persist is kept. Once two calls are at it,
\* either copy may be the last one persisted.
ChangeList(c, a, r, list) ==
    /\ memoryList' = ListChanged(a, list)
    /\ adminCall' = [adminCall EXCEPT ![c] = AdminCall("persist", a, r, NoRole, list)]
    /\ listAnswer' = [listAnswer EXCEPT ![a] =
                         [x \in Role |-> IF x = r \/ ~ListQuiet(a) THEN "unsure" ELSE @[x]]]
    /\ listsApart' = Overtakes(ListQuiet(a), listsApart, a)

\* An agent that has the role already is left alone: nothing is persisted, also if the call
\* that gave it the role has not persisted it yet, or failed to.
Assign(c) ==
    LET k == adminCall[c]
        settled == ListQuiet(k.subject) /\ k.subject \notin listsApart
    IN  /\ k.step = "assign"
        /\ IF k.role \in memoryList[k.subject]
           THEN /\ listAnswer' = [listAnswer EXCEPT ![k.subject][k.role] =
                                     IF settled THEN "assigned" ELSE @]
                /\ adminCall' = [adminCall EXCEPT ![c] = NoAdminCall]
                /\ UNCHANGED <<memoryList, listsApart>>
           ELSE ChangeList(c, k.subject, k.role, memoryList[k.subject] \cup {k.role})
        /\ UNCHANGED <<storedRole, storedList, memoryRole, roleAnswer, rolesApart, adminBounds>>

Revoke(c, a, r) ==
    /\ adminCall[c] = NoAdminCall
    /\ ChangeList(c, a, r, memoryList[a] \ {r})
    /\ UNCHANGED <<storedRole, storedList, memoryRole, roleAnswer, rolesApart, adminBounds>>

\* Mutant: an empty list is not written, so the old one stays.
KeepOldList(a, list) == IF list = {} THEN storedList[a] ELSE list

\* putAgentRoles: an empty list deletes the key.
ListToStore(a, list) == list

PersistList(c) ==
    LET k == adminCall[c]
        told == IF k.role \in k.list THEN "assigned" ELSE "revoked"
    IN  /\ k.step = "persist"
        /\ storedList' = [storedList EXCEPT ![k.subject] = ListToStore(k.subject, k.list)]
        /\ listAnswer' = [listAnswer EXCEPT ![k.subject][k.role] =
                             IF k.subject \in listsApart THEN "unsure" ELSE told]
        /\ adminCall' = [adminCall EXCEPT ![c] = NoAdminCall]
        /\ UNCHANGED <<storedRole, memoryRole, memoryList, roleAnswer, apartVars, adminBounds>>

\* The write fails and the caller has its error, but the list in memory stays changed.
FailPersist(c) ==
    /\ adminCall[c].step = "persist" /\ adminFaults < MaxAdminFault
    /\ adminFaults' = adminFaults + 1
    /\ adminCall' = [adminCall EXCEPT ![c] = NoAdminCall]
    /\ listsApart' = listsApart \cup {adminCall[c].subject}
    /\ UNCHANGED <<storedRole, storedList, memoryRole, memoryList, roleAnswer, listAnswer,
                   rolesApart, adminCrashes>>

-----------------------------------------------------------------------------
\* The process dies and NewPermissionManager loads what is stored; a built-in role that
\* is missing is created again, in the store too.
Reload ==
    LET loaded == [r \in Role |-> IF storedRole[r] = NoRole /\ r \in DOMAIN Builtin
                                  THEN Builtin[r] ELSE storedRole[r]]
    IN  /\ adminCrashes < MaxAdminCrash
        /\ adminCrashes' = adminCrashes + 1
        /\ storedRole' = loaded
        /\ memoryRole' = loaded
        /\ memoryList' = storedList
        /\ adminCall' = [c \in Admin |-> NoAdminCall]
        /\ rolesApart' = {} /\ listsApart' = {}
        /\ UNCHANGED <<storedList, roleAnswer, listAnswer, adminFaults>>

AdminNext ==
    \/ \E c \in Admin : \/ \E r \in Role, d \in Definition \cup {NoRole} : PutRole(c, r, d)
                        \/ \E a \in Subject, r \in Role : FindRole(c, a, r) \/ Revoke(c, a, r)
                        \/ RememberRole(c) \/ Assign(c) \/ PersistList(c) \/ FailPersist(c)
    \/ Reload

AdminSpec == AdminInit /\ [][AdminNext]_adminVars

-----------------------------------------------------------------------------
\* The shapes of the memory, the store and the calls of permission.go.
AdminTypeOK ==
    /\ storedRole \in [Role -> Definition \cup {NoRole}]
    /\ memoryRole \in [Role -> Definition \cup {NoRole}]
    /\ storedList \in [Subject -> SUBSET Role] /\ memoryList \in [Subject -> SUBSET Role]
    /\ roleAnswer \in [Role -> Definition \cup {NoRole, Unsure}]
    /\ \A c \in Admin : LET k == adminCall[c] IN
          \/ k = NoAdminCall \/ k.step = "assign"
          \/ k.step = "remember" /\ k.definition \in Definition \cup {NoRole}
          \/ k.step = "persist" /\ k.list \subseteq Role
    /\ listAnswer \in [Subject -> [Role -> {"assigned", "revoked", "unsure"}]]
    /\ rolesApart \subseteq Role /\ listsApart \subseteq Subject
    /\ adminFaults \in 0..MaxAdminFault /\ adminCrashes \in 0..MaxAdminCrash

\* permission.go:77: the memory is refreshed with every write. Any administrators, of whom
\* several may work on one agent or one role: what a call said of an assignment or a role is so
\* in the memory and in the store, across failing writes and restarts, until the next call
\* changes it, or two changes of that agent's list, or of that role, overlap. A call
\* that met another one's unfinished or failed change says nothing. (A built-in role that was
\* deleted comes back with a restart.)
AnswersSurvive ==
    /\ \A a \in Subject, r \in Role :
          /\ listAnswer[a][r] = "assigned" => r \in memoryList[a] \cap storedList[a]
          /\ listAnswer[a][r] = "revoked" => r \notin memoryList[a] \cup storedList[a]
    /\ \A r \in Role : roleAnswer[r] # Unsure =>
          \/ memoryRole[r] = roleAnswer[r] /\ storedRole[r] = roleAnswer[r]
          \/ roleAnswer[r] = NoRole /\ r \in DOMAIN Builtin

Unrestricted(rule) == rule.resource = "*" /\ rule.scope = << >> /\ rule.action \in {"*", "admin"}

\* permission.go:285: admin implies every ability. An agent that was assigned a role with
\* an unrestricted rule is allowed whatever it wants, and one whose roles were all revoked
\* is allowed nothing, in the process that answered and in the next.
AnswersDecide ==
    \A a \in Subject :
        /\ (\E r \in Role : /\ listAnswer[a][r] = "assigned" /\ roleAnswer[r] \in Definition
                            /\ \E rule \in roleAnswer[r] : Unrestricted(rule))
              => \A want \in Wants : Allowed(a, want)
        /\ (\A r \in Role : listAnswer[a][r] = "revoked") => \A want \in Wants : ~Allowed(a, want)
=============================================================================
