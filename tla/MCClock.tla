-------------------------------- MODULE MCClock --------------------------------
(***************************************************************************)
(* The clock through every day of a leap century, of the years around a    *)
(* new year and of the last year that two digits can name.                 *)
(***************************************************************************)
EXTENDS Clock

MCYears == {2000, 2023, 2024, 2099}

\* 09:59:59 carries into the tens of the hour, 23:59:59 into the date.
MCHours == {9, 23}

=============================================================================
