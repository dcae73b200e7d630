---------------------------- MODULE SevenProducts ----------------------------
(***************************************************************************)
(* Strassen's seven products, as src/rectangular32.c and                   *)
(* src/rectangular64.c write them down: once as tables of quadrant         *)
(* pointers (rectangular32_execute), once as the seven sums that the       *)
(* packing routines form from the four quadrants of an operand, and once   *)
(* as the recombination.  Products are numbered from zero, as in the code. *)
(***************************************************************************)
EXTENDS Integers

Quadrants == {"11", "12", "21", "22"}
None == "none"

Products == 0 .. 6

\* Product p multiplies left[p] (+ or -) left2[p] by right[p] (+ or -) right2[p].
left   == <<"11", "21", "11", "22", "11", "21", "12">>
left2  == <<"22", "22", None, None, "12", "11", "22">>
right  == <<"11", "11", "12", "21", "22", "11", "21">>
right2 == <<"22", None, "22", "11", None, "12", "22">>
sign_a == <<1, 1, 0, 0, 1, -1, -1>>
sign_b == <<1, 0, -1, -1, 0, 1, 1>>

\* The seven left and right factors from the four quadrants of an operand.
SumsOfA(v) == <<v["11"] + v["22"], v["21"] + v["22"], v["11"], v["22"],
                v["11"] + v["12"], v["21"] - v["11"], v["12"] - v["22"]>>
SumsOfB(v) == <<v["11"] + v["22"], v["11"], v["12"] - v["22"],
                v["21"] - v["11"], v["22"], v["11"] + v["12"],
                v["21"] + v["22"]>>

\* The four quadrants of C from the seven products.
Recombined(p) ==
  [q \in Quadrants |->
     CASE q = "11" -> ((p[1] + p[4]) - p[5]) + p[7]
       [] q = "12" -> p[3] + p[5]
       [] q = "21" -> p[2] + p[4]
       [] q = "22" -> ((p[1] - p[2]) + p[3]) + p[6]]

\* A constant-level reading of a table indexed from zero.
At(table, p) == table[p + 1]

CeilDiv(x, y) == (x + y - 1) \div y
Least(x, y)   == IF x < y THEN x ELSE y
=============================================================================
