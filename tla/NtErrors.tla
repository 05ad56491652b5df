------------------------------ MODULE NtErrors ------------------------------
(***************************************************************************)
(* How the NTOS code turns Win32 and WinSock error codes into Status: many *)
(* codes share a Status, and codes without a case are IO_UNKNOWN.          *)
(***************************************************************************)
EXTENDS Status

CONSTANT Cases     \* the cases of map_error's switch: system code -> Status

SUCCESS == 0       \* ERROR_SUCCESS

ASSUME CasesAssumption ==
  \A sys \in DOMAIN Cases : sys # SUCCESS /\ Cases[sys] \in 1..MaxErrno \cup {IO_EOF}

Statuses == {Cases[sys] : sys \in DOMAIN Cases} \cup {IO_OK, IO_UNKNOWN}

\* sys is unsigned: `sys <= 0` is the case of ERROR_SUCCESS.
map_error(sys) ==
  IF sys = SUCCESS THEN IO_OK
  ELSE IF sys \in DOMAIN Cases THEN Cases[sys] ELSE IO_UNKNOWN

=============================================================================
