---------------------------- MODULE MC_EventText ----------------------------
(* Scaled-down buffers that fill up on short hosts and short lists.        *)
EXTENDS EventText

MCFixedBuffers == {[size |-> 12, text |-> 4], [size |-> 20, text |-> 9]}

(* The buffers of the code: the time stamp takes up to 63 characters, an   *)
(* integer 20, a rate 22, a percentage 5 and a device name 31.             *)
RealFixedBuffers ==
    {[size |-> 512, text |-> 170 + 63],                \* warming_up, ready
     [size |-> 1024, text |-> 223 + 63 + 4 * 5 + 11],  \* cpu
     [size |-> 1024, text |-> 255 + 63 + 7 * 20],      \* memory
     [size |-> 1024, text |-> 221 + 63 + 3 * 20]}      \* internal

ASSUME RealSizesFit ==
    SizesFit(127, 256, RealFixedBuffers, 2048, 512, 175 + 63, 36 .. 36 + 31 + 2 * 22, 4096)
=============================================================================
