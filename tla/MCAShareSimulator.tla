--------------------------- MODULE MCAShareSimulator ---------------------------
(* Instances of AShareSimulator for TLC. *)
EXTENDS AShareSimulator

Row(status, price, volume, down, up) ==
    [status |-> status, price |-> price, close |-> price, volume |-> volume,
     up |-> up, down |-> down]

(* The second row opens above its upper limit. *)
Bars == {Row("tradable", 20, 9, 18, 22), Row("tradable", 26, 9, 18, 22),
         Row("limit_up_locked", 22, 6, 18, 22), Row("limit_down_locked", 18, 9, 18, 22)}

Halves == {<<3, 2>>, <<1, 2>>}
Half == <<1, 2>>
================================================================================
