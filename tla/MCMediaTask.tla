---------------------------- MODULE MCMediaTask ----------------------------
(* Requests of build/message/v1.2 and five more, as plans of three workers. *)
EXTENDS MediaTask

None3 == <<<<>>, <<>>, <<>>>>
Plan(kind, master, atStart, atEnd) ==
  [kind |-> kind, master |-> master, atStart |-> atStart, atEnd |-> atEnd]

\* download_cut.xml: the cuts are masters, and triggered too.
DownloadCut ==
  Plan(<<"mk", "mk", "mk">>, {1, 2, 3}, None3, <<<<2, 3>>, <<>>, <<>>>>)

\* download_cut_upload_aliyun_oss.xml
DownloadCutUpload ==
  Plan(<<"transfer", "mss", "transfer">>, {1}, None3, <<<<2>>, <<3>>, <<>>>>)

\* record_jion.xml
RecordJoin ==
  Plan(<<"mss", "mss", "mk">>, {1}, None3, <<<<2>>, <<3>>, <<>>>>)

\* Two recordings, each of which uploads when it ends.
TwoSources ==
  Plan(<<"mk", "mss", "transfer">>, {1, 2}, None3, <<<<3>>, <<3>>, <<>>>>)

\* A download and a recording, each of which starts a media kernel when it ends.
ThreadAndLoop ==
  Plan(<<"transfer", "mk", "mk">>, {1, 2}, None3, <<<<3>>, <<3>>, <<>>>>)

\* A download that triggers a master, which triggers an upload.
TriggeredMaster ==
  Plan(<<"transfer", "mk", "transfer">>, {1, 2}, None3, <<<<2>>, <<3>>, <<>>>>)

\* A download that starts an upload and later a media kernel.
StartAndEnd ==
  Plan(<<"transfer", "transfer", "mk">>, {1}, <<<<2>>, <<>>, <<>>>>, <<<<3>>, <<>>, <<>>>>)

\* Masters that trigger nobody.
NoTriggers ==
  Plan(<<"transfer", "mk", "transfer">>, {1, 2, 3}, None3, None3)

\* No worker is a master.
NoMaster ==
  Plan(<<"mk", "mk", "mk">>, {}, None3, None3)

SomePlans == {DownloadCut, DownloadCutUpload, RecordJoin, TwoSources,
              ThreadAndLoop, TriggeredMaster, StartAndEnd, NoTriggers, NoMaster}

=============================================================================
