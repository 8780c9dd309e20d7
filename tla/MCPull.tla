-------------------------------- MODULE MCPull --------------------------------
(***************************************************************************)
(* A source whose cursor column is finer than the saved cursor (Precision  *)
(* 2): three rows in one unit of the cursor are one more than a batch.     *)
(***************************************************************************)
EXTENDS Pull

Row(stamp, tie) == [stamp |-> stamp, tie |-> tie]
mcRows == {Row(3, 1), Row(3, 2), Row(3, 3)}
mcPoison == {}
=============================================================================
