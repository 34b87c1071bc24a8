------------------------------ MODULE MCClans ------------------------------
(* Small instances of Clans: one owner, a personal clan and room for a team. *)
EXTENDS Clans

CONSTANTS o1, u2, u3, u4, p1, t1, m1, m2, m3, m4, m5, i1, i2, r1, r2, job1,
          monthly, yearly, flat, overage

MCPersonal == [o \in {o1} |-> p1]
MCClan == {p1, t1}
MCMember == {m1, m2, m3, m4, m5}
As(role, c, u) == [clan |-> c, user |-> u, role |-> role]
Invited(role, c, u) ==
  [clan |-> c, user |-> u, role |-> role, accepted |-> FALSE, expired |-> FALSE]
NoItems == [i \in Item |-> [price |-> None, qty |-> 0]]

\* Roles: a team with a second admin, and two people about to join.
RolesUser == {o1, u2, u3, u4}
RolesSeedClans == [c \in MCClan |-> o1]
RolesSeedMembers ==
  [m \in MCMember |-> CASE m = m1 -> As("admin", p1, o1)
                        [] m = m2 -> As("admin", t1, o1)
                        [] m = m3 -> As("admin", t1, u2)
                        [] OTHER  -> None]
RolesSeedInvites ==
  [i \in {i1, i2} |-> IF i = i1 THEN Invited("reader", t1, u3) ELSE Invited("member", t1, u4)]
RolesPlans == {[sub |-> [u \in RolesUser |-> FreeRow], items |-> [u \in RolesUser |-> NoItems]]}

\* Seats: the owner, alone so far, pays per seat or still sits on a flat price.
SeatsUser == {o1, u2}
SeatsSeedClans == [c \in MCClan |-> IF c = p1 THEN o1 ELSE None]
SeatsSeedMembers == [m \in MCMember |-> IF m = m1 THEN As("admin", p1, o1) ELSE None]
SeatsSeedInvites == [i \in {i1} |-> Invited("member", p1, u2)]
OnPlan(row, its) == [sub   |-> [u \in SeatsUser |-> IF u = o1 THEN row ELSE FreeRow],
                     items |-> [u \in SeatsUser |-> IF u = o1 THEN its ELSE NoItems]]
PaidRow(price) == [tier |-> "pro", subscribed |-> TRUE, hasSub |-> TRUE, price |-> price]
ItemsOn(price) ==
  [i \in Item |-> [price |-> IF i = "base" THEN price ELSE overage, qty |-> 1]]
SeatsPlans == {OnPlan(PaidRow(p), ItemsOn(p)) : p \in {monthly, flat}}
=============================================================================
