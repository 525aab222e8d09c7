-------------------------------- MODULE MCSite --------------------------------
(* Two states with a district each, and a pin in each district; a field in the catalogue
   and one outside it. *)
EXTENDS Site
MCStateOf == [d \in Districts |-> IF d = "north" THEN "N" ELSE "S"]
MCDistrictAt == [p \in Pins |-> IF p = "field" THEN "north" ELSE "south"]
MCAreaOf == [p \in FieldPins |-> IF p = "field" THEN "north" ELSE Unset]
===============================================================================
