------------------------------ MODULE MCScanDir ------------------------------
(* Instances of ScanDir for TLC. *)
EXTENDS ScanDir

CONSTANTS w1, w2

(* Units 1 and 3 are byte-identical, unit 4 cannot be read; unit 2 shares a
   finding with them and alone exceeds a budget of 3. *)
MCContent == <<"a", "b", "a", "c">>
MCFinds == [c \in {"a", "b", "c"} |->
              CASE c = "a" -> {"k1"} [] c = "b" -> {"k1", "k2"} [] OTHER -> {}]
MCCost == <<1, 4, 2, 1>>

=============================================================================
