----------------------------- MODULE MCSlicePlans -----------------------------
(* A missing clip and a clip against two annotations, on two axes.         *)
EXTENDS SlicePlans

Box(t0, t1, x0, x1) ==
    [d \in {"t", "x"} |-> IF d = "t" THEN <<t0, t1>> ELSE <<x0, x1>>]

MCStart == [s \in {"left", "right"} |->
    IF s = "left"
    THEN << [key |-> "b", slice |-> Null],
            [key |-> "a", slice |-> Box(Null, 5, 0, 2)] >>
    ELSE << [key |-> "a", slice |-> Box(1, 3, 0, 1)],
            [key |-> "b", slice |-> Box(3, 6, 1, 3)] >>]

MCDims == <<"t", "x">>

Window(size, stride, offset, partial) ==
    [size |-> size, stride |-> stride, offset |-> offset, partial |-> partial]

On(dim, window) == [dim |-> dim, window |-> window]

MCWindowSets ==
    { <<On("t", Window(2, 3, 1, TRUE))>>,
      <<On("t", Window(2, 2, 1, TRUE))>>,
      <<On("t", Window(3, 1, 0, FALSE))>>,
      <<On("t", Window(2, 2, 0, TRUE)), On("x", Window(1, 1, 0, TRUE))>> }

MCTerms ==
    { [kind |-> "equals", dim |-> "key", pad |-> 0],
      [kind |-> "overlap", dim |-> "x", pad |-> 0],
      [kind |-> "overlap", dim |-> "t", pad |-> 1] }

MCChunkSizes == {Null, 1, 2, 3}
=============================================================================
