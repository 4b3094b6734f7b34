----------------------------- MODULE MCAuthService -----------------------------
(* AuthService for TLC, and a claim of the code that it does not keep.       *)
EXTENDS AuthService

\* AuthService.cpp answers ParseError with "Failed to parse start response".
\* So a reply that was parsed never leads to that result.
ParseErrorMeansUnparsed == result = "ParseError" => ~parsed
=============================================================================
