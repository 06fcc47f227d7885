---------------------------- MODULE MCReceiptWait ----------------------------
(* Windows shorter and longer than a poll interval, defaulted intervals, and *)
(* a request that may outlast the window.                                    *)
EXTENDS ReceiptWait

MCTimeouts == {-1, 0, 1, 4}
MCPollIntervals == {-1, 0, 1, 3}
=============================================================================
