---------------------------- MODULE MCConfigStore ----------------------------
(* ConfigStore with the upper halves of the real words: the magic number and *)
(* the floats 0.3, 0.8, 0, 0.5 (the defaults) and 0.5, 0.8, 0.01, 0.5.       *)
(* No words of these records cancel out in the checksum: ChecksumNotices     *)
(* holds.                                                                    *)
EXTENDS ConfigStore

MCDefaults == [kp |-> 16025, ki |-> 16204, kd |-> 0, kf |-> 16128]
MCHostGains == {[kp |-> 16128, ki |-> 16204, kd |-> 15395, kf |-> 16128],
                [kp |-> 16025, ki |-> 0, kd |-> 0, kf |-> 16025]}
=============================================================================
