---- MODULE MCPostBodyStream ----
(* A body of two parts, one of them empty, with two boundaries of different *)
(* length.  The second part is as long as the last delimiter may be.        *)
EXTENDS PostBodyStream

MCWidth == [b \in Boundary |-> IF b = "short" THEN 1 ELSE 2]
MCContent == <<0, 2>>
MCHeader == <<2, 1>>

\* contentLength after each stream that is appended.
MCStart ==
  [b \in Boundary |->
     LET sum[s \in 1..(Streams + 1)] ==
           IF s = 1 THEN 0 ELSE sum[s - 1] + Size(b, s - 1)
     IN  sum]
====
