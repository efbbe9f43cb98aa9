------------------------------ MODULE MCSendMedia ------------------------------
(***************************************************************************)
(* SendMedia on small files: all that have tables in front of four packets, *)
(* and some whose tables come late, in the wrong order or again.           *)
(***************************************************************************)
EXTENDS SendMedia

Tail4 == [ 1 .. 4 -> {"start", "other"} ]

MCFiles ==
  { << "pat", "pmt" >> \o t : t \in Tail4 }
  \cup { << "pmt", "start", "pat", "start", "pmt", "start", "start" >>,
         << "other", "pat", "start", "pmt", "start", "pmt", "start" >>,
         << "pat", "pmt", "start", "start", "start", "start", "start" >>,
         << "pat", "pmt", "start", "other", "other", "other", "start" >>,
         << >> }

\* A file whose frames fill the pool.
MCFullPool == { << "pat", "pmt", "start", "start", "start", "start", "start" >> }
===============================================================================
