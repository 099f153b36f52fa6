----------------------------- MODULE MCFtpSync -----------------------------
(* One upload and one download configuration and two REST requests beside    *)
(* the watcher; a file with two contents, the second one not UTF-8.          *)
EXTENDS FtpSync

CONSTANTS upload, download, first, second, replaced

MCConfigs == {upload, download}
MCDownloads == {download}
MCCallers == {first, second}
MCContents == {first, second}
MCTexts == {first, replaced, Cut}
MCDecoded == [content \in MCContents \cup {Cut} |->
                IF content = second THEN replaced ELSE content]
=============================================================================
