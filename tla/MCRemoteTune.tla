---------------------------- MODULE MCRemoteTune ----------------------------
(* RemoteTune with two surfaces besides the network.  They are             *)
(* interchangeable, and the run checks no liveness: symmetry is sound.     *)
(*                                                                         *)
(* Beside it the receive path, RxChain, the settings file, Settings, and   *)
(* the USB gadget with its CAT port, CatPort, are checked, and the         *)
(* arithmetic of ClockGen is evaluated: a behavior is one of RemoteTune,   *)
(* of RxChain, of Settings or of CatPort, or stays at one frequency.       *)
EXTENDS RemoteTune, RxChain, Settings, CatPort, ClockGen

VARIABLE input            \* <<>> in a behavior of RemoteTune

usbVars == <<gadgetVars, catVars>>
mcVars  == <<remoteVars, rxVars, settingsVars, usbVars, input>>

SurfaceSymmetry == Permutations(Surfaces)

(* Complete and incomplete bands in every order, a band of another scale,  *)
(* a foreign section, a key of the top, and a line that cannot be read.    *)
MCLines ==
  {SectionLine("tx_band"), SectionLine("tcxo"), OtherLine,
   KeyLine("bfo_freq", 99), KeyLine("f_start", 1), KeyLine("f_stop", 2)}
    \union {KeyLine("scale", s) : s \in {3, 4}}

MCCompiledIn == [key \in TopKeys |-> 0]

Teeth == 2500

(* Every frequency next to a change of the divider, and a comb over the    *)
(* whole range of the clocks: the dial from 0 to 31 MHz.                   *)
Frequencies ==
  {f \in {Vco \div d + k : d \in 9 .. 16, k \in -2 .. 2} : f >= 40000000}
    \union {40000000 + 12345 * k : k \in 0 .. Teeth}

MCInit ==
  /\ RemoteInit
  /\ ChainInit
  /\ LoadInit
  /\ CatInit
  /\ input \in {<<>>, <<"samples">>, <<"file">>, <<"usb">>}
                 \union {<<"clock", f>> : f \in Frequencies}

(* A file may end after any line.                                          *)
MCNext ==
  \/ /\ input = <<>> /\ RemoteNext
     /\ UNCHANGED <<rxVars, settingsVars, usbVars, input>>
  \/ /\ input = <<"samples">> /\ ChainNext
     /\ UNCHANGED <<remoteVars, settingsVars, usbVars, input>>
  \/ /\ input = <<"file">> /\ LoadNext
     /\ UNCHANGED <<remoteVars, rxVars, usbVars, input>>
  \/ /\ input = <<"usb">> /\ CatNext
     /\ UNCHANGED <<remoteVars, rxVars, settingsVars, input>>
  \/ input \notin {<<>>, <<"samples">>, <<"usb">>} /\ UNCHANGED mcVars

MCSpec == MCInit /\ [][MCNext]_mcVars

-----------------------------------------------------------------------------
(* Every frequency that the radio sets comes out of the clock generator    *)
(* (ClockGen's Reaches), on both sides of each change of the divider too.  *)
ClockReaches ==
  input # <<>> /\ input[1] = "clock" => Reaches(input[2])

=============================================================================
