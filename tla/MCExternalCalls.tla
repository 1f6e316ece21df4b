---------------------------- MODULE MCExternalCalls ----------------------------
(* A small instance of ExternalCalls for TLC, and the default settings. *)
EXTENDS ExternalCalls

\* Different times, so that a confusion of two calls is seen.
ShortTimes == [c \in Calls |-> CASE c = "text" -> 2 [] c = "image" -> 3 [] OTHER -> 1]
ShortWaits == [c \in Calls |-> IF c \in ProviderCalls THEN 2 ELSE 1]

\* Seconds; a try of a storage call connects (5 s) and reads (15 s).
DefaultTimes == [c \in Calls |-> CASE c = "text" -> 60 [] c = "image" -> 120 [] OTHER -> 20]
DefaultWaits == [c \in Calls |-> IF c \in ProviderCalls THEN 10 ELSE 8]

Defaults == INSTANCE ExternalCalls WITH
  OpenaiTries <- 3, S3Tries <- 3, TryTime <- DefaultTimes, MaxWait <- DefaultWaits,
  LockTimeout <- 1800

\* The default settings satisfy the assumption.
ASSUME DefaultsCovered == Defaults!LeaseCoversCalls
=============================================================================
