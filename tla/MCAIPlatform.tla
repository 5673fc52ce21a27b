---------------------------- MODULE MCAIPlatform ----------------------------
(* Instances of AIPlatform for TLC. *)
EXTENDS AIPlatform

\* One text to summarise and one call to analyse.
TextAndCall ==
  {[kind |-> "text", capability |-> "summarize", provider |-> "mock", incident |-> "i1"],
   [kind |-> "call", capability |-> "analyze", provider |-> "mock"]}
=============================================================================
