-------------------------------- MODULE MCViews --------------------------------
(* Views with three entries, two of them of the account shown, one a credit. *)
EXTENDS Views

CONSTANTS a1, a2

MCAccountOf == <<a1, a2, a1>>
MCAmount == <<-1, -2, 4>>
MCDayOf == <<1, 2, 3>>

===============================================================================
