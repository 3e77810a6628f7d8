-------------------------- MODULE MCTenantSymbols --------------------------
(***************************************************************************)
(* Two callers, two tenants: a symbol with two coins, a second symbol, the *)
(* same symbol of the other tenant, and each part missing once.            *)
(***************************************************************************)
EXTENDS TenantSymbols, TLC

R(t, o, y, n) == [tenant |-> t, source |-> o, symbol |-> y, coin |-> n]
MCRows == {R(1, 1, 1, 1), R(1, 1, 1, 2), R(1, 1, 2, 1), R(2, 1, 1, 1)}
          \cup {R(0, 1, 1, 1), R(1, 0, 1, 1), R(1, 1, 0, 1), R(1, 1, 2, 0)}
AnyCaller == Permutations(Callers)
=============================================================================
