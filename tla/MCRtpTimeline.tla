--------------------------- MODULE MCRtpTimeline ---------------------------
(***************************************************************************)
(* Instances of RtpTimeline for TLC: an audio and a video track; a file, a *)
(* playlist of two files played twice, one without an end, and one whose   *)
(* second file has no audio.                                               *)
(***************************************************************************)
EXTENDS RtpTimeline

MCOrder == <<"a", "v">>

MCPlay(aim, from, to, speed) == [aim |-> aim, from |-> from, to |-> to, speed |-> speed]

MCAny == 1000

MCAims == {MCOrder, <<"a">>}

MCFrame(time, key) == [time |-> time, key |-> key]

MCShort == [lasts |-> 1, tracks |-> [a |-> <<MCFrame(0, TRUE)>>, v |-> <<MCFrame(0, TRUE)>>]]

MCLong ==
  [lasts |-> 2, tracks |-> [a |-> <<MCFrame(0, TRUE), MCFrame(1, TRUE)>>,
                            v |-> <<MCFrame(0, TRUE), MCFrame(1, FALSE)>>]]

(* At double speed from 1 the frame at 4 is more than a second ahead.      *)
MCSparse ==
  [lasts |-> 6, tracks |-> [a |-> <<MCFrame(0, TRUE)>>,
                            v |-> <<MCFrame(0, TRUE), MCFrame(4, TRUE), MCFrame(5, TRUE)>>]]

MCMute == [lasts |-> 1, tracks |-> [v |-> <<MCFrame(0, TRUE)>>]]

MCFilm(list, live, vlc, lines, plays, asks) ==
  [list |-> list, live |-> live, vlc |-> vlc, lines |-> lines, plays |-> plays, asks |-> asks]

MCFilms == <<
  MCFilm(FALSE, FALSE, FALSE, <<FileLine(MCSparse)>>,
         {MCPlay(MCOrder, MCAny, MCAny, MCAny), MCPlay(MCOrder, MCAny, MCAny, -1),
          MCPlay(<<"v">>, 1, 6, 2)}, 2),
  MCFilm(TRUE, FALSE, FALSE, <<FileLine(MCShort), LoopLine(2), FileLine(MCLong)>>,
         {MCPlay(MCOrder, 1, 3, MCAny), MCPlay(<<"v">>, MCAny, MCAny, 2)}, 3),
  MCFilm(TRUE, FALSE, TRUE, <<LoopLine(2), FileLine(MCShort), FileLine(MCMute)>>,
         {MCPlay(MCOrder, 0, MCAny, 2), MCPlay(MCOrder, 1, 0, -1)}, 2),
  MCFilm(TRUE, TRUE, FALSE, <<FileLine(MCLong)>>,
         {MCPlay(MCOrder, 0, MCAny, MCAny)}, 3) >>

(* The playlist without an end, where a client may seek.                   *)
MCEndless == <<
  MCFilm(TRUE, FALSE, FALSE, <<FileLine(MCLong)>>, {MCPlay(MCOrder, 0, MCAny, MCAny)}, 3) >>

=============================================================================
