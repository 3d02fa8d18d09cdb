--------------------------- MODULE MCSampledWindows ---------------------------
(* Slices and windows of tenths of a second, none of which a float holds.  *)
EXTENDS SampledWindows

(* The float nearest to n hundredths of a second.                          *)
Hundredths(n) == Nearest((n * Second + 50) \div 100)

Window(size, stride, offset, partial) ==
    [size |-> Hundredths(size), stride |-> Hundredths(stride),
     offset |-> Hundredths(offset), partial |-> partial]

MCSlices == { <<Hundredths(start), Hundredths(start + length)>> :
                 start \in {0, 20, 70, 110}, length \in {10, 70, 90, 100} }

MCCuts == { Window(30, 30, 0, TRUE), Window(10, 10, 0, TRUE), Window(7, 7, 0, TRUE),
            Window(1, 1, 0, TRUE), Window(30, 10, 0, FALSE), Window(20, 20, 10, FALSE),
            Window(25, 10, 10, TRUE) }

MCRates == {10, 16, 30, 100}
=============================================================================
