------------------------------ MODULE MCRestClient ------------------------------
(* RestClient for TLC: any of the five methods, with and without headers, on   *)
(* any set of initialised handles.                                             *)
EXTENDS RestClient
=============================================================================
