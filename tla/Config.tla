------------------------------- MODULE Config -------------------------------
(* What every component shares: the uploads and the retry budget.          *)
EXTENDS Naturals

CONSTANTS Items,        \* temp_ids, one per accepted upload
          MaxRetries    \* the values of MAX_RETRIES the web processes were started with

ASSUME MaxRetriesAssumption == MaxRetries \subseteq Nat
=============================================================================
