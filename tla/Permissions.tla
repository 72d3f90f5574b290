---------------------------- MODULE Permissions -----------------------------
(***************************************************************************)
(* The permissions of internal/config.  A permission is the sequence of    *)
(* the words between its dots ("container.read" is <<"container", "read">>,*)
(* and the permission "*" is <<"*">>); what a user may do on the servers   *)
(* is a function from server names and "*" to sets of permissions, empty   *)
(* for a name config.json does not list.                                   *)
(***************************************************************************)
EXTENDS Integers, Sequences

PermFileWrite        == <<"file", "write">>
PermContainerRead    == <<"container", "read">>
PermContainerWrite   == <<"container", "write">>
PermContainerExecute == <<"container", "execute", "*">>
PermContainerRestore == <<"container", "execute", "restore">>
Execute(word)        == <<"container", "execute", word>>

\* Bug: a permission that the required one extends is taken for a wildcard.
matchRecursive_Prefix(userPerm, required) ==
    \A i \in 1 .. Len(userPerm) :
        userPerm[i] = "*" \/ (i <= Len(required) /\ userPerm[i] = required[i])

\* The loop leaves at the first word that is a wildcard or differs.
matchRecursive(userPerm, required) ==
    LET leaves == {i \in 1 .. Len(userPerm) :
                     userPerm[i] = "*" \/ i > Len(required) \/ userPerm[i] # required[i]}
    IN  \/ userPerm = <<"*">>
        \/ userPerm = required
        \/ IF leaves = {} THEN Len(userPerm) = Len(required)
           ELSE \E i \in leaves : userPerm[i] = "*" /\ \A j \in leaves : i <= j

checkPermission(userPerms, required) ==
    \E p \in userPerms : matchRecursive(p, required)

\* perms is the zero value, without any permission, for an unknown user.
HasPermission(perms, serverName, requiredPerm) ==
    \/ serverName \in DOMAIN perms /\ checkPermission(perms[serverName], requiredPerm)
    \/ checkPermission(perms["*"], requiredPerm)

\* What a permission of config.json means ("ドット記法とワイルドカードによる階層的な権限管理",
\* README.md): the required one itself, or everything below the words that
\* come before a wildcard.
Grants(userPerm, required) ==
    \/ userPerm = required
    \/ \E k \in 1 .. Len(userPerm) :
          /\ userPerm[k] = "*"
          /\ k <= Len(required) + 1
          /\ SubSeq(userPerm, 1, k - 1) = SubSeq(required, 1, k - 1)
=============================================================================
