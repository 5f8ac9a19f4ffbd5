----------------------- MODULE MCBookingConfirmation -----------------------
(***************************************************************************)
(* Small instances of BookingConfirmation.                                 *)
(***************************************************************************)
EXTENDS BookingConfirmation, TLC

CONSTANTS p1, p2

\* Phone numbers are interchangeable.
PhoneSymmetry == Permutations({p1, p2})

\* Texts in use.
AllTexts == {"yes", "no", "code", "visits", "browse", "other"}
=============================================================================
