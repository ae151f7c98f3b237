--------------------------- MODULE BackendConstants ---------------------------
(***************************************************************************)
(* The predefined values of UniMPI: process-wide variables with a default  *)
(* (src/vtable.c, error.c, mp_constants.c, predef_attr.c) that the table   *)
(* initialization of a backend overwrites with its own, in whole or in     *)
(* part (src/backends/*.c).                                                *)
(*                                                                         *)
(* Error classes are listed one by one, in capitals, without MPI_ERR_.     *)
(* Every other entry stands for a family of values that each backend       *)
(* treats alike, and carries the number of one of them:                    *)
(*   communicators COMM_WORLD     null_handles  REQUEST_NULL               *)
(*   datatypes     INT            ops           SUM                        *)
(*   status_ignore, any_source, in_place        the value of that name     *)
(*   proc_null     PROC_NULL      lock          LOCK_EXCLUSIVE             *)
(*   topology      CART           dup_fn        COMM_DUP_FN                *)
(*   null_fn       COMM_NULL_COPY_FN                                       *)
(*   tool_codes    T_ERR_MEMORY   tool_enums    T_VERBOSITY_USER_BASIC     *)
(*   tool_family   T_ERR_NOT_SUPPORTED                                     *)
(***************************************************************************)
EXTENDS Integers, Sequences, Merging

Numeric(values) ==
  [g \in DOMAIN values |-> [how |-> "number", num |-> values[g], since |-> 22, late |-> FALSE]]
Symbol(names) ==
  [g \in names |-> [how |-> "address", num |-> 0, since |-> 22, late |-> FALSE]]
Keep(names) ==
  [g \in names |-> [how |-> "keep", num |-> 0, since |-> 22, late |-> FALSE]]
ToolGate(a)  == [g \in DOMAIN a |-> [a[g] EXCEPT !.since = 30]]
AfterComm(a) == [g \in DOMAIN a |-> [a[g] EXCEPT !.late = TRUE]]

(* The i-th name is the class with number i.                               *)
Numbered(names) ==
  [n \in {names[i] : i \in DOMAIN names} |-> CHOOSE i \in DOMAIN names : names[i] = n]

-----------------------------------------------------------------------------
(***************************************************************************)
(* Error classes.                                                          *)
(***************************************************************************)
OpenMPIOrder == <<
  "BUFFER", "COUNT", "TYPE", "TAG", "COMM", "RANK", "REQUEST", "ROOT", "GROUP", "OP",
  "TOPOLOGY", "DIMS", "ARG", "UNKNOWN", "TRUNCATE", "OTHER", "INTERN", "IN_STATUS",
  "PENDING", "ACCESS", "AMODE", "ASSERT", "BAD_FILE", "BASE", "CONVERSION", "DISP",
  "DUP_DATAREP", "FILE_EXISTS", "FILE_IN_USE", "FILE", "INFO_KEY", "INFO_NOKEY",
  "INFO_VALUE", "INFO", "IO", "KEYVAL", "LOCKTYPE", "NAME", "NO_MEM", "NOT_SAME",
  "NO_SPACE", "NO_SUCH_FILE", "PORT", "QUOTA", "READ_ONLY", "RMA_CONFLICT", "RMA_SYNC",
  "SERVICE", "SIZE", "SPAWN", "UNSUPPORTED_DATAREP", "UNSUPPORTED_OPERATION", "WIN" >>

MpichOrder == <<
  "BUFFER", "COUNT", "TYPE", "TAG", "COMM", "RANK", "ROOT", "GROUP", "OP", "TOPOLOGY",
  "DIMS", "ARG", "UNKNOWN", "TRUNCATE", "OTHER", "INTERN", "IN_STATUS", "PENDING",
  "REQUEST", "ACCESS", "AMODE", "BAD_FILE", "CONVERSION", "DUP_DATAREP", "FILE_EXISTS",
  "FILE_IN_USE", "FILE", "INFO", "INFO_KEY", "INFO_VALUE", "INFO_NOKEY", "IO", "NAME",
  "NO_MEM", "NOT_SAME", "NO_SPACE", "NO_SUCH_FILE", "PORT", "QUOTA", "READ_ONLY",
  "SERVICE", "SPAWN", "UNSUPPORTED_DATAREP", "UNSUPPORTED_OPERATION", "WIN", "BASE",
  "LOCKTYPE", "KEYVAL", "RMA_CONFLICT", "RMA_SYNC", "SIZE", "DISP", "ASSERT" >>

OpenMPICodes == Numbered(OpenMPIOrder) ++ [LASTCODE |-> 92]

(* Mutant of MpichCodes: one class is forgotten.                           *)
MpichCodesShort ==
  Numbered(SubSeq(MpichOrder, 1, 52)) ++ [RMA_RANGE |-> 55, LASTCODE |-> 1073741823]

MpichCodes == Numbered(MpichOrder) ++ [RMA_RANGE |-> 55, LASTCODE |-> 1073741823]

IntelOwnCodes ==
  [RMA_ATTACH |-> 56, RMA_SHARED |-> 57, RMA_FLAVOR |-> 58, SESSION |-> 75,
   PROC_ABORTED |-> 76, VALUE_TOO_LARGE |-> 77, ERRHANDLER |-> 80, ABI |-> 81,
   LASTCODE |-> 1073741823]

(* Mutant of IntelCodes: OTHER is left out.                                *)
IntelCodesNoOther ==
  LET all == Numbered(MpichOrder) ++ IntelOwnCodes
  IN [n \in DOMAIN all \ {"OTHER"} |-> all[n]]

IntelCodes == Numbered(MpichOrder) ++ IntelOwnCodes

MSCodes == Numbered(OpenMPIOrder) ++ [LASTCODE |-> 54]

(* The classes unimpi_mpi_error_string compares a code with, in its order. *)
ErrorStringOrder ==
  <<"SUCCESS">> \o OpenMPIOrder
  \o << "RMA_RANGE", "RMA_ATTACH", "RMA_SHARED", "RMA_FLAVOR", "SESSION",
        "PROC_ABORTED", "VALUE_TOO_LARGE", "ERRHANDLER", "ABI", "LASTCODE" >>
ErrorClasses == {ErrorStringOrder[i] : i \in DOMAIN ErrorStringOrder}

-----------------------------------------------------------------------------
(***************************************************************************)
(* What each backend overwrites.                                           *)
(***************************************************************************)
OpenMPICommValues == Symbol({"communicators", "null_handles"}) ++ Numeric([status_ignore |-> 0])
OpenMPITypeHandles == Symbol({"datatypes"})
OpenMPIOps       == Symbol({"ops"})
OpenMPISentinels ==
  Numeric([SUCCESS |-> 0, any_source |-> -1, proc_null |-> -2, in_place |-> 1])
  ++ Numeric(OpenMPICodes)
OpenMPICallbacks == Symbol({"dup_fn", "null_fn"})
OpenMPITopology  == Numeric([topology |-> 1])
OpenMPITool      == ToolGate(Numeric([tool_codes |-> 54, tool_enums |-> 0]))

(* MPICH.  A library that has MPIR_Comm_world and MPIR_Comm_self (before   *)
(* version 4) gives the communicators in them, and one of Intel MPI in     *)
(* MPIR_C_MPI_COMM_WORLD: a number read there in place of this one.        *)
MpichCommunicators == Numeric([communicators |-> 1140850688])
MpichPredefined ==
  Numeric([lock |-> 234, in_place |-> -1, null_handles |-> 738197504,
          status_ignore |-> 1, topology |-> 2])
MpichSentinels == Numeric([SUCCESS |-> 0, any_source |-> -2]) ++ Numeric(MpichCodes)
MpichCallbacks == Symbol({"dup_fn"})
MpichTool ==
  ToolGate(Numeric([tool_codes |-> 59, tool_enums |-> 221, tool_family |-> 78]))

(* Intel MPI.                                                              *)
IntelCommunicators == Numeric([communicators |-> 1140850688])
IntelPredefined ==
  Numeric([lock |-> 234, in_place |-> -1, null_handles |-> 738197504,
          status_ignore |-> 1, topology |-> 2])
IntelSentinels == Numeric([SUCCESS |-> 0, any_source |-> -2]) ++ Numeric(IntelCodes)
IntelCallbacks == Symbol({"dup_fn"})
IntelTool ==
  ToolGate(Numeric([tool_codes |-> 59, tool_enums |-> 221, tool_family |-> 78]))

(* MS-MPI.                                                                 *)
MSPredefined ==
  Numeric([communicators |-> 1140850688, lock |-> 234, in_place |-> -1,
          null_handles |-> 738197504, status_ignore |-> 1, topology |-> 2])
MSSentinels == Numeric([SUCCESS |-> 0, any_source |-> -2]) ++ Numeric(MSCodes)
MSCallbacks == Symbol({"dup_fn"})
MSTool ==
  ToolGate(Numeric([tool_codes |-> 59, tool_enums |-> 221, tool_family |-> 78]))

-----------------------------------------------------------------------------
(***************************************************************************)
(* The defaults.                                                           *)
(***************************************************************************)
DefaultHandles ==
  [communicators |-> 0, null_handles |-> 0, status_ignore |-> 0, topology |-> 0,
   datatypes |-> 1275069445, ops |-> 1476395011]
DefaultCodes == [n \in ErrorClasses |-> 0]
DefaultSentinels ==
  [lock |-> 1, any_source |-> -1, proc_null |-> -1, in_place |-> 0]
DefaultCallbacks == [dup_fn |-> 0, null_fn |-> 0]
DefaultTool == [tool_codes |-> 0, tool_enums |-> 0, tool_family |-> 0]

DefaultValues ==
  DefaultHandles ++ DefaultCodes ++ DefaultSentinels ++ DefaultCallbacks ++ DefaultTool

AllValues == DOMAIN DefaultValues

(* Everything but the attribute callbacks comes after the communicators.   *)
OpenMPIAssigned ==
  OpenMPICallbacks
  ++ AfterComm(OpenMPICommValues ++ OpenMPITypeHandles ++ OpenMPIOps ++ OpenMPISentinels
               ++ OpenMPITopology ++ OpenMPITool)
  ++ Keep(AllValues)
MpichAssigned ==
  MpichCommunicators ++ MpichPredefined ++ MpichSentinels ++ MpichCallbacks ++ MpichTool
  ++ Keep(AllValues)
IntelAssigned ==
  IntelCommunicators ++ IntelPredefined ++ IntelSentinels ++ IntelCallbacks ++ IntelTool
  ++ Keep(AllValues)
MSAssigned ==
  MSPredefined ++ MSSentinels ++ MSCallbacks ++ MSTool ++ Keep(AllValues)
===============================================================================
