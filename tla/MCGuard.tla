------------------------------ MODULE MCGuard ------------------------------
(* One agent over two markets, its watcher, one operator.                  *)
EXTENDS LiveGuard
=============================================================================
