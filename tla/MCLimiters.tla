----------------------------- MODULE MCLimiters -----------------------------
EXTENDS Limiters

(* One IPv6 subscriber with two hosts behind the proxy's header, and one     *)
(* IPv4 address that reaches the application directly.                       *)
MCRequests ==
    { [header |-> <<6, 1, 1>>, remote |-> <<4, 9, 9>>],
      [header |-> <<6, 1, 2>>, remote |-> <<4, 9, 9>>],
      [header |-> <<>>, remote |-> <<4, 2, 1>>] }
=============================================================================
