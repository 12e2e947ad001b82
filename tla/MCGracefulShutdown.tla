------------------------- MODULE MCGracefulShutdown -------------------------
(* GracefulShutdown for TLC: two requests over HTTP and one over gRPC.     *)
EXTENDS GracefulShutdown

Both == [r \in Requests |-> IF r = "rpc" THEN "grpc" ELSE "http"]
=============================================================================
