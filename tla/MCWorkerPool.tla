---------------------------- MODULE MCWorkerPool ----------------------------
(* Instances of WorkerPool for TLC. *)
EXTENDS WorkerPool

CONSTANTS w1, w2

MCWorkers == {w1, w2}

Err(rejected, word, result) == [rejected |-> rejected, word |-> word, result |-> result]

(* winrm.go: ScanEndpoint returns a result of status "error" with every    *)
(* error.  ErrWinRMAuthFailed has none of the words in its text; a         *)
(* transport error may have one, when an address or port in it contains    *)
(* 401 or 403.                                                             *)
WinRMErrors ==
  {Err(TRUE, FALSE, TRUE), Err(FALSE, FALSE, TRUE), Err(FALSE, TRUE, TRUE)}

(* bmc.go returns no result with an error, and the scanner of              *)
(* loadtest_400_test.go rejects with the text "401 Unauthorized".          *)
TestErrors == {Err(TRUE, TRUE, FALSE), Err(FALSE, FALSE, FALSE)}
=============================================================================
