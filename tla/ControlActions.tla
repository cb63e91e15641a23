--------------------------- MODULE ControlActions ---------------------------
(***************************************************************************)
(* The RenderingControl service as it describes itself (the argument       *)
(* tables of upnp_control.c, which make its SCPD) and as its handlers      *)
(* answer.  Every entry is a pair: argument name, state variable.          *)
(***************************************************************************)
EXTENDS Integers

(* arguments_..., direction out *)
ControlDescribed ==
  [GetBlueVideoBlackLevel |-> <<<<"CurrentBlueVideoBlackLevel", "BlueVideoBlackLevel">>>>,
   GetBlueVideoGain |-> <<<<"CurrentBlueVideoGain", "BlueVideoGain">>>>,
   GetBrightness |-> <<<<"CurrentBrightness", "Brightness">>>>,
   GetColorTemperature |-> <<<<"CurrentColorTemperature", "ColorTemperature">>>>,
   GetContrast |-> <<<<"CurrentContrast", "Contrast">>>>,
   GetGreenVideoBlackLevel |-> <<<<"CurrentGreenVideoBlackLevel", "GreenVideoBlackLevel">>>>,
   GetGreenVideoGain |-> <<<<"CurrentGreenVideoGain", "GreenVideoGain">>>>,
   GetHorizontalKeystone |-> <<<<"CurrentHorizontalKeystone", "HorizontalKeystone">>>>,
   GetLoudness |-> <<<<"CurrentLoudness", "Loudness">>>>,
   GetMute |-> <<<<"CurrentMute", "Mute">>>>,
   GetRedVideoBlackLevel |-> <<<<"CurrentRedVideoBlackLevel", "RedVideoBlackLevel">>>>,
   GetRedVideoGain |-> <<<<"CurrentRedVideoGain", "RedVideoGain">>>>,
   GetSharpness |-> <<<<"CurrentSharpness", "Sharpness">>>>,
   GetVerticalKeystone |-> <<<<"CurrentVerticalKeystone", "VerticalKeystone">>>>,
   GetVolume |-> <<<<"CurrentVolume", "Volume">>>>,
   GetVolumeDB |-> <<<<"CurrentVolume", "VolumeDB">>>>,
   GetVolumeDBRange |-> <<<<"MinValue", "VolumeDB">>, <<"MaxValue", "VolumeDB">>>>,
   ListPresets |-> <<<<"CurrentPresetNameList", "PresetNameList">>>>,
   SetMute |-> <<>>, SetVolume |-> <<>>, SetVolumeDB |-> <<>>]

(* arguments_..., direction in, beside InstanceID *)
ControlInputs ==
  [GetLoudness |-> {"Channel"}, GetMute |-> {"Channel"},
   GetVolume |-> {"Channel"}, GetVolumeDB |-> {"Channel"},
   GetVolumeDBRange |-> {"Channel"}, SetMute |-> {"Channel", "DesiredMute"},
   SetVolume |-> {"Channel", "DesiredVolume"},
   SetVolumeDB |-> {"Channel", "DesiredVolume"}]

(* list_presets ... get_loudness: what cmd_obtain_variable is called with  *)
ControlAnswers ==
  [GetBlueVideoBlackLevel |-> <<<<"CurrentBlueVideoBlackLevel", "BlueVideoBlackLevel">>>>,
   GetBlueVideoGain |-> <<<<"CurrentBlueVideoGain", "BlueVideoGain">>>>,
   GetBrightness |-> <<<<"CurrentBrightness", "Brightness">>>>,
   GetColorTemperature |-> <<<<"CurrentColorTemperature", "ColorTemperature">>>>,
   GetContrast |-> <<<<"CurrentContrast", "Contrast">>>>,
   GetGreenVideoBlackLevel |-> <<<<"CurrentGreenVideoBlackLevel", "GreenVideoBlackLevel">>>>,
   GetGreenVideoGain |-> <<<<"CurrentGreenVideoGain", "GreenVideoGain">>>>,
   GetHorizontalKeystone |-> <<<<"CurrentHorizontalKeystone", "HorizontalKeystone">>>>,
   GetLoudness |-> <<<<"CurrentLoudness", "Loudness">>>>,
   GetMute |-> <<<<"CurrentMute", "Mute">>>>,
   GetRedVideoBlackLevel |-> <<<<"CurrentRedVideoBlackLevel", "RedVideoBlackLevel">>>>,
   GetRedVideoGain |-> <<<<"CurrentRedVideoGain", "RedVideoGain">>>>,
   GetSharpness |-> <<<<"CurrentSharpness", "Sharpness">>>>,
   GetVerticalKeystone |-> <<<<"CurrentVerticalKeystone", "VerticalKeystone">>>>,
   GetVolume |-> <<<<"CurrentVolume", "Volume">>>>,
   GetVolumeDB |-> <<<<"CurrentVolumeDB", "VolumeDB">>>>,
   ListPresets |-> <<<<"CurrentPresetNameList", "PresetNameList">>>>]

(* get_volume_dbrange answers constants: volume_db_range and "0" *)
VolumeDBRange == [MinValue |-> -60 * 256, MaxValue |-> 0]

(* control_var_meta: the variables that no handler changes *)
ControlConstants ==
  [v \in {"Brightness", "Contrast", "Sharpness", "RedVideoGain", "GreenVideoGain",
          "BlueVideoGain", "RedVideoBlackLevel", "GreenVideoBlackLevel",
          "BlueVideoBlackLevel", "ColorTemperature", "HorizontalKeystone",
          "VerticalKeystone", "Loudness", "PresetNameList"} |->
     IF v = "PresetNameList" THEN "" ELSE "0"]
=============================================================================
