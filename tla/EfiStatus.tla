----------------------------- MODULE EfiStatus ------------------------------
(***************************************************************************)
(* EFI_STATUS and print_status_msg() of efi_status.c.                      *)
(*                                                                         *)
(* A status is a number of 64 bits; ErrorBit is the highest of them.  Each *)
(* description in the tables begins with the name of the value it stands   *)
(* beside, so an entry is that value.                                      *)
(***************************************************************************)
EXTENDS Integers, Sequences

CONSTANT ErrorBit   \* 2^63

ASSUME StatusAssumption == ErrorBit \in Nat /\ ErrorBit > 35

EFIERR(code) == ErrorBit + code
EFI_ERROR(status) == status >= ErrorBit

EFI_SUCCESS == 0
EFI_BUFFER_TOO_SMALL == EFIERR(5)

\* What efierr.h has a name for.
ErrorCodes == 1 .. 28 \cup 31 .. 35
KnownStatuses == {EFIERR(c) : c \in ErrorCodes} \cup 0 .. 6

\* The tables have an entry for success and one per error or warning, in the
\* order of their codes.  (Wrong: as if there were no gap in the codes.)
err_tblMutNoGap == [n \in 1 .. 34 |-> IF n = 1 THEN EFI_SUCCESS ELSE EFIERR(n - 1)]
err_tbl ==
  [n \in 1 .. 34 |-> CASE n = 1       -> EFI_SUCCESS
                       [] n \in 2 .. 29  -> EFIERR(n - 1)
                       [] n \in 30 .. 34 -> EFIERR(n + 1)]
warn_tbl == [n \in 1 .. 7 |-> n - 1]

\* L"Unknown status value."
Unknown == -1

\* The first entry that has the status, of the table EFI_ERROR selects.
print_status_msg(status) ==
  LET tbl  == IF EFI_ERROR(status) THEN err_tbl ELSE warn_tbl
      hits == {n \in DOMAIN tbl : tbl[n] = status}
  IN  IF hits = {} THEN Unknown
      ELSE tbl[CHOOSE n \in hits : \A m \in hits : n <= m]

=============================================================================
