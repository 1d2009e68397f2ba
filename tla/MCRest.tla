------------------------------- MODULE MCRest --------------------------------
(* Three calls of the shared futures client: one with a body, one without, *)
(* and one that waits for its answer.                                      *)
EXTENDS Rest, TLC

CONSTANTS r1, r2, r3

Calls == r1 :> "ffuture_adjust_leverage" @@ r2 :> "future_cancel_order" @@
         r3 :> "future_start_user_data_stream"
=============================================================================
