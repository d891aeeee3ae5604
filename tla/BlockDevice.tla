---------------------------- MODULE BlockDevice ----------------------------
(***************************************************************************)
(* What virtio_disk_rw promises its caller: between the call and its       *)
(* return the block is read into the buffer or written from it, once, and  *)
(* nothing else on the disk changes.  A device error stops the machine.    *)
(***************************************************************************)
CONSTANTS Bufs, Blocks, Data, NoBuf

VARIABLES disk,   \* disk[n]: the contents of block n
          data,   \* data[b]: the contents of buffer b
          req,    \* the request being served, or NoReq
          state   \* "idle", "called", "served" or "failed"

vars == <<disk, data, req, state>>

Init == /\ disk \in [Blocks -> Data] /\ data \in [Bufs -> Data]
        /\ req = [buf |-> NoBuf, block |-> 0, write |-> FALSE] /\ state = "idle"

Call == /\ state = "idle" /\ state' = "called"
        /\ \E b \in Bufs, n \in Blocks, w \in BOOLEAN :
              /\ req' = [buf |-> b, block |-> n, write |-> w]
              /\ \E d \in Data : data' = [data EXCEPT ![b] = d]
        /\ UNCHANGED disk

Serve == /\ state = "called" /\ state' = "served"
         /\ IF req.write THEN /\ disk' = [disk EXCEPT ![req.block] = data[req.buf]]
                              /\ UNCHANGED data
                         ELSE /\ data' = [data EXCEPT ![req.buf] = disk[req.block]]
                              /\ UNCHANGED disk
         /\ UNCHANGED req

Return == state = "served" /\ state' = "idle" /\ UNCHANGED <<disk, data, req>>

Fail == state = "called" /\ state' = "failed" /\ UNCHANGED <<disk, data, req>>

Next == Call \/ Serve \/ Return \/ Fail

Spec == Init /\ [][Next]_vars
=============================================================================
