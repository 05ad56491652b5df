---------------------------- MODULE LinuxErrors ----------------------------
(* How the Linux5 code turns what the kernel answers into Status and IOResult. *)
EXTENDS Status

CONSTANT Mapped    \* errno values that map_error has a case for

ASSUME MappedAssumption == Mapped \subseteq 1..MaxErrno

EOF == -1          \* stdio's, which map_error has a case for too

Statuses == Mapped \cup {IO_OK, IO_UNKNOWN, IO_EOF}

\* The switch keeps names: errno value e becomes the Status of the same name.
map_error(sys) ==
  IF sys \in Mapped THEN sys ELSE IF sys = EOF THEN IO_EOF ELSE IO_UNKNOWN

map_result(ret) == IF ret >= 0 THEN OfCount(IO_OK, ret) ELSE OfStatus(map_error(ret))

=============================================================================
