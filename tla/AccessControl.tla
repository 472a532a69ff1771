---------------------------- MODULE AccessControl ----------------------------
(***************************************************************************)
(* The role bookkeeping of src/contracts/utils/AccessControl.sol.          *)
(*                                                                         *)
(* A role's members are an OpenZeppelin EnumerableSet: an array of values  *)
(* and a map _indexes from a member to its position in the array plus one  *)
(* (0 for an account that is not a member).  The array is the inverse of   *)
(* that map, so a role is represented by _indexes alone: a function from   *)
(* accounts to naturals.  Bridge.sol reads _indexes directly               *)
(* (getRoleMemberIndex) to place a relayer's vote in a bit map.            *)
(***************************************************************************)
EXTENDS Naturals, FiniteSets

CONSTANT Accounts       \* the addresses that may hold a role or send a transaction

ASSUME AccountsFinite == IsFiniteSet(Accounts)

NoMembers == [a \in Accounts |-> 0]

Members(role) == {a \in Accounts : role[a] # 0}

hasRole(role, account) == role[account] # 0

getRoleMemberCount(role) == Cardinality(Members(role))

getRoleMemberIndex(role, account) == role[account]

(* EnumerableSet.add: a new member is pushed at the end of the array, an   *)
(* existing one is left where it is.                                       *)
_grantRole(role, account) ==
    IF hasRole(role, account)
    THEN role
    ELSE [role EXCEPT ![account] = getRoleMemberCount(role) + 1]

(* A removal that clears the index without moving the last member.         *)
RevokeLeavesHole(role, account) == [role EXCEPT ![account] = 0]

(* EnumerableSet.remove: the LAST member of the array is moved into the    *)
(* place of the removed one, so the index of a member that was not removed *)
(* may change.                                                             *)
_revokeRole(role, account) ==
    IF ~hasRole(role, account)
    THEN role
    ELSE [a \in Accounts |-> IF a = account THEN 0
                             ELSE IF role[a] = getRoleMemberCount(role) THEN role[account]
                             ELSE role[a]]

(* _indexes is the inverse of an array without duplicates: the members'    *)
(* indices are 1..n, each held once.                                       *)
IsEnumeration(role) ==
    /\ \A a \in Members(role) : role[a] <= getRoleMemberCount(role)
    /\ \A a, b \in Members(role) : role[a] = role[b] => a = b
=============================================================================
