------------------------------ MODULE MCAfXdp ------------------------------
(***************************************************************************)
(* AfXdp for TLC: the shape of the default configuration (num_frames =     *)
(* 2 * ring_size), one with frames to spare, one without a pinned map, and *)
(* one for each check of AfXdpIo::new to refuse.                           *)
(***************************************************************************)
EXTENDS AfXdp

Config(n, size, ring, pin) ==
    [num_frames |-> n, frame_size |-> size, ring_size |-> ring, pinned |-> pin]

MCConfigs == {Config(4, 2, 2, TRUE), Config(4, 2, 1, TRUE),
              Config(2, 2, 1, FALSE), Config(3, 2, 1, TRUE),
              Config(4, 1, 2, TRUE), Config(2, 2, 2, TRUE)}
=============================================================================
